---- MODULE Spec2Model ----
(***************************************************************************)
(* A model of parseroni (src/src/parse.ts): the Result type, the scalar    *)
(* parsers and the parser combinators.  A JavaScript value is a tagged     *)
(* record, a parser is a term (the closure the combinator returns, as      *)
(* data) and Run interprets a term on a value exactly as the closure runs, *)
(* returning the Result together with the log of every parser and          *)
(* transform it invoked, in invocation order.                              *)
(***************************************************************************)
EXTENDS Integers, Sequences, FiniteSets, TLC

\* the client's invocation: where it stands (pc), the parser composed, the value
\* handed to it, the Result it returned and the invocations it made, in order;
\* kept: an earlier invocation of the parser whose outcome the client still holds;
\* heap: the objects the client holds by reference, cell by cell
VARIABLES pc, parser, input, result, calls, kept, heap

vars == <<pc, parser, input, result, calls, kept, heap>>

(***************************************************************************)
(* Bounds of the explored inputs.                                          *)
(***************************************************************************)
MaxNum == 1
MaxLen == 2
MaxParsers == 3
\* the objects a client holds at a time: two inputs and the two values returned
MaxCells == 4

(***************************************************************************)
(* JavaScript values: the JSON domain, and what a property read from a     *)
(* value of that domain can yield (the built-in prototype objects, their   *)
(* constructors and methods), and the records the parsers build.           *)
(***************************************************************************)
Null == [t |-> "null"]
Undefined == [t |-> "undefined"]
Bool(b) == [t |-> "boolean", b |-> b]
Num(n) == [t |-> "number", n |-> n]
Str(s) == [t |-> "string", s |-> s]
Arr(items) == [t |-> "array", items |-> items]
\* props: the own enumerable properties in enumeration order, [key, val] each;
\* the prototype is Object.prototype
Obj(props) == [t |-> "object", props |-> props]

\* one own property of an object
Prop(key, val) == [key |-> key, val |-> val]

\* a number that is no integer of the explored range, by its literal: the
\* constants of Number
Real(lit) == [t |-> "number", lit |-> lit]

\* an object whose prototype is proto, an object or null, and not
\* Object.prototype
ObjOf(props, proto) == [t |-> "object", props |-> props, proto |-> proto]

\* a built-in function with its own properties name and length; home names the
\* object it is defined on, which tells apart functions of one name
Builtin(home, name, length) ==
    [t |-> "function", name |-> name, length |-> length, home |-> home]

\* the built-in prototype objects; none has an own enumerable property
ObjectPrototype == [t |-> "object", props |-> <<>>, intrinsic |-> "Object.prototype"]
StringPrototype == [t |-> "object", props |-> <<>>, intrinsic |-> "String.prototype"]
NumberPrototype == [t |-> "object", props |-> <<>>, intrinsic |-> "Number.prototype"]
BooleanPrototype == [t |-> "object", props |-> <<>>, intrinsic |-> "Boolean.prototype"]
ArrayPrototype == [t |-> "array", items |-> <<>>, intrinsic |-> "Array.prototype"]
FunctionPrototype == Builtin("Function", "", 0)

Constructors == {"Object", "Array", "String", "Number", "Boolean", "Function"}

\* the constructor of a name
Constructor(name) == Builtin("globalThis", name, 1)

IsIntrinsic(value) == "intrinsic" \in DOMAIN value

IsConstructor(value) ==
    value.t = "function" /\ value.home = "globalThis" /\ value.name \in Constructors

\* Type(value) is Object
IsObject(value) == value.t \in {"object", "array", "function"}

\* the number is one of the constants of Number
IsReal(value) == "lit" \in DOMAIN value

\* typeof value
TypeOf(value) ==
    CASE value.t = "null" -> "object"
      [] value.t = "array" -> "object"
      [] OTHER -> value.t

\* Array.isArray(value)
IsArray(value) == value.t = "array"

\* ToBoolean(value), the test of `value ? a : b`
Truthy(value) ==
    CASE value.t = "null" -> FALSE
      [] value.t = "undefined" -> FALSE
      [] value.t = "boolean" -> value.b
      [] value.t = "number" -> IF IsReal(value) THEN value.lit # "NaN" ELSE value.n # 0
      [] value.t = "string" -> value.s # ""
      [] OTHER -> TRUE

Digit(d) ==
    CASE d = 0 -> "0" [] d = 1 -> "1" [] d = 2 -> "2" [] d = 3 -> "3"
      [] d = 4 -> "4" [] d = 5 -> "5" [] d = 6 -> "6" [] d = 7 -> "7"
      [] d = 8 -> "8" [] d = 9 -> "9"

RECURSIVE NatToString(_)
NatToString(n) == IF n < 10 THEN Digit(n) ELSE NatToString(n \div 10) \o Digit(n % 10)

\* Number::toString of an integer
NumberToString(n) == IF n < 0 THEN "-" \o NatToString(0 - n) ELSE NatToString(n)

\* the invocation ended by throwing error instead of returning a Result
thrown(error) == [type |-> "throw", error |-> error]

\* a property read, an assignment or a conversion that threw instead of
\* yielding a value
readThrew(v) == "type" \in DOMAIN v

TypeError == "TypeError: Cannot convert object to primitive value"

RestrictedError ==
    "TypeError: 'caller', 'callee', and 'arguments' properties may not be accessed on strict mode functions or the arguments objects for calls to them"

\* a decimal digit
IsDigit(c) == c \in {"0", "1", "2", "3", "4", "5", "6", "7", "8", "9"}

DigitValue(c) ==
    CASE c = "0" -> 0 [] c = "1" -> 1 [] c = "2" -> 2 [] c = "3" -> 3 [] c = "4" -> 4
      [] c = "5" -> 5 [] c = "6" -> 6 [] c = "7" -> 7 [] c = "8" -> 8 [] c = "9" -> 9

\* the number the first n characters of a digit string spell
RECURSIVE DigitsValue(_, _)
DigitsValue(key, n) ==
    IF n = 0 THEN 0
    ELSE DigitsValue(key, n - 1) * 10 + DigitValue(SubSeq(key, n, n))

\* key is an array index: the canonical decimal form of an integer of
\* 0..2^32 - 2 (4294967294)
IsIndexKey(key) ==
    /\ Len(key) \in 1..10
    /\ \A n \in 1..Len(key) : IsDigit(SubSeq(key, n, n))
    /\ Len(key) = 1 \/ SubSeq(key, 1, 1) # "0"
    /\ Len(key) = 10
          => \/ DigitsValue(key, 9) < 429496729
             \/ DigitsValue(key, 9) = 429496729 /\ DigitValue(SubSeq(key, 10, 10)) <= 4

\* the index key k1 names a smaller integer than the index key k2
IndexLess(k1, k2) ==
    \/ Len(k1) < Len(k2)
    \/ /\ Len(k1) = Len(k2)
       /\ LET n == IF Len(k1) = 10 THEN 9 ELSE Len(k1)
          IN  \/ DigitsValue(k1, n) < DigitsValue(k2, n)
              \/ /\ DigitsValue(k1, n) = DigitsValue(k2, n)
                 /\ Len(k1) = 10
                 /\ DigitValue(SubSeq(k1, 10, 10)) < DigitValue(SubSeq(k2, 10, 10))

\* key names a member below the given length of an array or a string
InRange(key, length) ==
    IsIndexKey(key) /\ Len(key) <= 9 /\ DigitsValue(key, Len(key)) < length

\* the order in which the own properties of an object are enumerated, entries
\* being its properties (of distinct keys) in the order they were written:
\* the index keys first, ascending, then the other keys in the order written
ForInOrder(entries) ==
    LET index == {i \in DOMAIN entries : IsIndexKey(entries[i].key)}
        named == DOMAIN entries \ index
        Rank(i) ==
            IF i \in index
            THEN Cardinality({j \in index : IndexLess(entries[j].key, entries[i].key)}) + 1
            ELSE Cardinality(index) + Cardinality({j \in named : j < i}) + 1
    IN  [n \in 1..Len(entries) |-> entries[CHOOSE i \in DOMAIN entries : Rank(i) = n]]

(***************************************************************************)
(* The built-in objects a property read reaches.  The function-valued own  *)
(* properties of each, by their length property (0, 1, 2, 3), are those of *)
(* ECMAScript 2024 and its Annex B; the properties whose presence depends  *)
(* on the version of the engine are listed apart and a read of one is left *)
(* undefined.  None of these properties is enumerable.                     *)
(***************************************************************************)
Methods(home) ==
    CASE home = "Object.prototype" ->
            <<{"toLocaleString", "toString", "valueOf"},
              {"hasOwnProperty", "isPrototypeOf", "propertyIsEnumerable",
               "__lookupGetter__", "__lookupSetter__"},
              {"__defineGetter__", "__defineSetter__"},
              {}>>
      [] home = "Array.prototype" ->
            <<{"entries", "flat", "keys", "pop", "reverse", "shift", "toLocaleString",
               "toReversed", "toString", "values"},
              {"at", "concat", "every", "fill", "filter", "find", "findIndex",
               "findLast", "findLastIndex", "flatMap", "forEach", "includes",
               "indexOf", "join", "lastIndexOf", "map", "push", "reduce",
               "reduceRight", "some", "sort", "toSorted", "unshift"},
              {"copyWithin", "slice", "splice", "toSpliced", "with"},
              {}>>
      [] home = "String.prototype" ->
            <<{"big", "blink", "bold", "fixed", "isWellFormed", "italics", "normalize",
               "small", "strike", "sub", "sup", "toLocaleLowerCase",
               "toLocaleUpperCase", "toLowerCase", "toString", "toUpperCase",
               "toWellFormed", "trim", "trimEnd", "trimLeft", "trimRight",
               "trimStart", "valueOf"},
              {"anchor", "at", "charAt", "charCodeAt", "codePointAt", "concat",
               "endsWith", "fontcolor", "fontsize", "includes", "indexOf",
               "lastIndexOf", "link", "localeCompare", "match", "matchAll", "padEnd",
               "padStart", "repeat", "search", "startsWith"},
              {"replace", "replaceAll", "slice", "split", "substr", "substring"},
              {}>>
      [] home = "Number.prototype" ->
            <<{"toLocaleString", "valueOf"},
              {"toExponential", "toFixed", "toPrecision", "toString"},
              {}, {}>>
      [] home = "Boolean.prototype" -> <<{"toString", "valueOf"}, {}, {}, {}>>
      [] home = "Function.prototype" -> <<{"toString"}, {"bind", "call"}, {"apply"}, {}>>
      [] home = "Object" ->
            <<{},
              {"entries", "freeze", "fromEntries", "getOwnPropertyDescriptors",
               "getOwnPropertyNames", "getOwnPropertySymbols", "getPrototypeOf",
               "isExtensible", "isFrozen", "isSealed", "keys", "preventExtensions",
               "seal", "values"},
              {"assign", "create", "defineProperties", "getOwnPropertyDescriptor",
               "hasOwn", "is", "setPrototypeOf"},
              {"defineProperty"}>>
      [] home = "Array" -> <<{"of"}, {"from", "isArray"}, {}, {}>>
      [] home = "String" -> <<{}, {"fromCharCode", "fromCodePoint", "raw"}, {}, {}>>
      [] home = "Number" ->
            <<{}, {"isFinite", "isInteger", "isNaN", "isSafeInteger", "parseFloat"},
              {"parseInt"}, {}>>
      [] home \in {"Boolean", "Function"} -> <<{}, {}, {}, {}>>

\* the properties that only recent versions of the engine define
VersionDependent(home, key) ==
    \/ home = "Object" /\ key = "groupBy"
    \/ home = "Array" /\ key = "fromAsync"

\* the constants of Number, none writable
NumberConstant(key) ==
    CASE key = "MAX_VALUE" -> Real("1.7976931348623157e+308")
      [] key = "MIN_VALUE" -> Real("5e-324")
      [] key = "EPSILON" -> Real("2.220446049250313e-16")
      [] key = "MAX_SAFE_INTEGER" -> Real("9007199254740991")
      [] key = "MIN_SAFE_INTEGER" -> Real("-9007199254740991")
      [] key = "POSITIVE_INFINITY" -> Real("Infinity")
      [] key = "NEGATIVE_INFINITY" -> Real("-Infinity")
      [] key = "NaN" -> Real("NaN")

NumberConstants ==
    {"MAX_VALUE", "MIN_VALUE", "EPSILON", "MAX_SAFE_INTEGER", "MIN_SAFE_INTEGER",
     "POSITIVE_INFINITY", "NEGATIVE_INFINITY", "NaN"}

\* the function found at key on the built-in object home: trimLeft and
\* trimRight are the functions trimStart and trimEnd, Number.parseFloat and
\* Number.parseInt the global functions of those names
MethodOfLength(home, key, length) ==
    Builtin(IF home = "Number" /\ key \in {"parseFloat", "parseInt"}
            THEN "globalThis" ELSE home,
            CASE key = "trimLeft" -> "trimStart"
              [] key = "trimRight" -> "trimEnd"
              [] OTHER -> key,
            length)

\* the lengths (one at most) of the function listed at key on home
MethodLengths(home, key) == {n \in 0..3 : key \in Methods(home)[n + 1]}

Method(home, key) ==
    MethodOfLength(home, key, CHOOSE n \in MethodLengths(home, key) : TRUE)

\* f is the function listed at key on the built-in object home
IsMethod(f, home, key) == f.home = home /\ f.name = key

\* the constructor a built-in prototype object belongs to
ConstructorName(home) ==
    CASE home = "Object.prototype" -> "Object"
      [] home = "Array.prototype" -> "Array"
      [] home = "String.prototype" -> "String"
      [] home = "Number.prototype" -> "Number"
      [] home = "Boolean.prototype" -> "Boolean"
      [] home = "Function.prototype" -> "Function"

\* constructor.prototype
PrototypeObject(name) ==
    CASE name = "Object" -> ObjectPrototype
      [] name = "Array" -> ArrayPrototype
      [] name = "String" -> StringPrototype
      [] name = "Number" -> NumberPrototype
      [] name = "Boolean" -> BooleanPrototype
      [] name = "Function" -> FunctionPrototype

\* the name under which the own properties of a built-in object are listed,
\* "" for an object that has none but name and length
HomeOf(value) ==
    IF IsIntrinsic(value) THEN value.intrinsic
    ELSE IF value = FunctionPrototype THEN "Function.prototype"
    ELSE IF IsConstructor(value) THEN value.name
    ELSE ""

\* own property descriptors: no property, a data property, the accessor
\* __proto__ of Object.prototype, the accessors caller and arguments of
\* Function.prototype (getter and setter throw)
NoProperty == [d |-> "none"]
Data(val, writable, enumerable) ==
    [d |-> "data", val |-> val, writable |-> writable, enumerable |-> enumerable]
ProtoAccessor == [d |-> "proto"]
RestrictedAccessor == [d |-> "restricted"]

\* the own property key of the built-in object listed under home
BuiltinProperty(home, key) ==
    CASE home = "" -> NoProperty
      [] VersionDependent(home, key) -> [d |-> "unspecified"]
      [] home = "Object.prototype" /\ key = "__proto__" -> ProtoAccessor
      [] home = "Function.prototype" /\ key \in {"caller", "arguments"} ->
            RestrictedAccessor
      [] home \in Constructors /\ key = "prototype" ->
            Data(PrototypeObject(home), FALSE, FALSE)
      [] home \notin Constructors /\ key = "constructor" ->
            Data(Constructor(ConstructorName(home)), TRUE, FALSE)
      [] home = "Number" /\ key \in NumberConstants ->
            Data(NumberConstant(key), FALSE, FALSE)
      [] OTHER ->
            LET lengths == MethodLengths(home, key)
            IN  IF lengths = {} THEN NoProperty
                ELSE Data(MethodOfLength(home, key, CHOOSE n \in lengths : TRUE),
                          TRUE, FALSE)

\* the member of a string or a sequence an index key names
Member(key) == DigitsValue(key, Len(key)) + 1

\* the own property key of value that is no property of a built-in object:
\* length and the members of a string or an array, the properties of a
\* record, length and name of a function, length of String.prototype
ExoticProperty(value, key) ==
    CASE value.t = "string" ->
            IF key = "length" THEN Data(Num(Len(value.s)), FALSE, FALSE)
            ELSE IF InRange(key, Len(value.s))
            THEN Data(Str(SubSeq(value.s, Member(key), Member(key))), FALSE, TRUE)
            ELSE NoProperty
      [] value.t = "array" ->
            IF key = "length" THEN Data(Num(Len(value.items)), TRUE, FALSE)
            ELSE IF InRange(key, Len(value.items))
            THEN Data(value.items[Member(key)], TRUE, TRUE)
            ELSE NoProperty
      [] value.t = "object" ->
            IF \E i \in 1..Len(value.props) : value.props[i].key = key
            THEN Data(value.props[CHOOSE i \in 1..Len(value.props) :
                                      value.props[i].key = key].val,
                      TRUE, TRUE)
            ELSE IF value = StringPrototype /\ key = "length"
            THEN Data(Num(0), FALSE, FALSE)
            ELSE NoProperty
      [] value.t = "function" ->
            IF key = "length" THEN Data(Num(value.length), FALSE, FALSE)
            ELSE IF key = "name" THEN Data(Str(value.name), FALSE, FALSE)
            ELSE NoProperty
      [] value.t \in {"number", "boolean"} -> NoProperty

\* the first of two property descriptors that is one of a property
OrElse(first, second) == IF first.d # "none" THEN first ELSE second

\* the own property key of value, a primitive standing for its wrapper object
OwnProperty(value, key) ==
    OrElse(ExoticProperty(value, key), BuiltinProperty(HomeOf(value), key))

\* the prototype of value (of its wrapper object for a primitive): an object
\* or null
ProtoOf(value) ==
    CASE value.t = "string" -> StringPrototype
      [] value.t = "number" -> NumberPrototype
      [] value.t = "boolean" -> BooleanPrototype
      [] value.t = "function" ->
            IF value = FunctionPrototype THEN ObjectPrototype ELSE FunctionPrototype
      [] value.t = "array" ->
            IF IsIntrinsic(value) THEN ObjectPrototype ELSE ArrayPrototype
      [] value.t = "object" ->
            IF value = ObjectPrototype THEN Null
            ELSE IF "proto" \in DOMAIN value THEN value.proto
            ELSE ObjectPrototype

\* the property key found from holder up the prototype chain
RECURSIVE FindProperty(_, _)
FindProperty(holder, key) ==
    IF holder = Null THEN NoProperty
    ELSE OrElse(OwnProperty(holder, key), FindProperty(ProtoOf(holder), key))

\* value[key] for a value other than null and undefined: the value of the
\* property found on value or up its prototype chain, undefined when there is
\* none; the getter of __proto__ yields the prototype of value; the getters of
\* caller and arguments throw
ValueOf(found, value) ==
    CASE found.d = "none" -> Undefined
      [] found.d = "data" -> found.val
      [] found.d = "proto" -> ProtoOf(value)
      [] found.d = "restricted" -> thrown(RestrictedError)

Get(value, key) == ValueOf(FindProperty(value, key), value)

\* the own enumerable keys of value, in enumeration order
OwnKeys(value) ==
    CASE value.t = "object" ->
            [i \in 1..Len(value.props) |-> ForInOrder(value.props)[i].key]
      [] value.t = "array" -> [i \in 1..Len(value.items) |-> NatToString(i - 1)]
      [] value.t = "string" -> [i \in 1..Len(value.s) |-> NatToString(i - 1)]
      [] OTHER -> <<>>

\* the keys a for-in loop over value visits, in order: its own enumerable keys,
\* then those of its prototype chain that no nearer object has a property for
RECURSIVE ForInKeys(_)
ForInKeys(value) ==
    IF ProtoOf(value) = Null THEN OwnKeys(value)
    ELSE OwnKeys(value)
            \o SelectSeq(ForInKeys(ProtoOf(value)),
                         LAMBDA key : OwnProperty(value, key).d = "none")

\* how the engine names the receiver of a failed assignment in its message:
\* by its constructor when its toString is that of Object.prototype, by its
\* class otherwise
NameBy(toString, constructor) ==
    IF /\ toString.d = "data"
       /\ toString.val.t = "function"
       /\ IsMethod(toString.val, "Object.prototype", "toString")
       /\ constructor.d = "data"
       /\ constructor.val.t = "function"
       /\ constructor.val.name # ""
    THEN "#<" \o constructor.val.name \o ">"
    ELSE "[object Object]"

ReceiverName(value) ==
    NameBy(FindProperty(value, "toString"), FindProperty(value, "constructor"))

\* the message of the TypeError a strict-mode assignment to a read-only
\* property throws
ReadOnlyMessage(name, key) ==
    "TypeError: Cannot assign to read only property '" \o key \o "' of object '"
        \o name \o "'"

ReadOnlyError(value, key) == ReadOnlyMessage(ReceiverName(value), key)

\* the record with a new own property
Define(record, key, val) ==
    [record EXCEPT !.props = ForInOrder(Append(@, Prop(key, val)))]

\* the record with val as its prototype
SetPrototype(record, val) ==
    IF val = ObjectPrototype THEN Obj(record.props) ELSE ObjOf(record.props, val)

\* result[key] = val where the record has no own property key and found is
\* the property of that name on its prototype chain
SetBy(found, record, key, val) ==
    CASE found.d = "none" -> Define(record, key, val)
      [] found.d = "data" /\ found.writable -> Define(record, key, val)
      [] found.d = "data" /\ ~found.writable -> thrown(ReadOnlyError(record, key))
      [] found.d = "restricted" -> thrown(RestrictedError)
      [] found.d = "proto" ->
            IF IsObject(val) \/ val = Null THEN SetPrototype(record, val) ELSE record

\* result[key] = val in strict mode, on the record under construction: an
\* own property is created unless the prototype chain holds a property for key
\* that forbids it.  For the key __proto__ that is the accessor of
\* Object.prototype, whose setter makes val the prototype of the record when
\* val is an object or null and does nothing otherwise, creating no own
\* property; a property that is not writable makes the assignment throw.
Assign(record, key, val) ==
    IF \E i \in 1..Len(record.props) : record.props[i].key = key
    THEN [record EXCEPT !.props =
             [i \in 1..Len(@) |-> IF @[i].key = key THEN Prop(key, val) ELSE @[i]]]
    ELSE SetBy(FindProperty(ProtoOf(record), key), record, key, val)

(***************************************************************************)
(* ToString(value), the conversion a template literal `${value}` applies.  *)
(* An object is converted by calling the toString it has or inherits, then *)
(* its valueOf; either may be a method of another prototype, found through *)
(* a replaced prototype or stored as a field by a parser.                  *)
(***************************************************************************)
NotGenericError(method, class) ==
    "TypeError: " \o method \o " requires that 'this' be a " \o class

\* the tag Object.prototype.toString gives an object
BuiltinTag(value) ==
    CASE value.t = "array" -> "Array"
      [] value.t = "function" -> "Function"
      [] value = StringPrototype -> "String"
      [] value = NumberPrototype -> "Number"
      [] value = BooleanPrototype -> "Boolean"
      [] OTHER -> "Object"

\* ToString of a primitive value
PrimitiveToString(value) ==
    CASE value.t = "null" -> "null"
      [] value.t = "undefined" -> "undefined"
      [] value.t = "boolean" -> (IF value.b THEN "true" ELSE "false")
      [] value.t = "number" ->
            IF IsReal(value) THEN value.lit ELSE NumberToString(value.n)
      [] value.t = "string" -> value.s

\* ToLength(ToNumber(value)) of a primitive value, for the strings that spell
\* a natural number in decimal digits and those that spell no number
PrimitiveToLength(value) ==
    CASE value.t \in {"null", "undefined"} -> 0
      [] value.t = "boolean" -> (IF value.b THEN 1 ELSE 0)
      [] value.t = "number" /\ ~IsReal(value) -> (IF value.n < 0 THEN 0 ELSE value.n)
      [] value.t = "number" /\ IsReal(value)
            /\ value.lit \in {"NaN", "-Infinity", "-9007199254740991", "5e-324",
                              "2.220446049250313e-16"} -> 0
      [] value.t = "string" /\ Len(value.s) <= 9
            /\ \A n \in 1..Len(value.s) : IsDigit(SubSeq(value.s, n, n)) ->
            DigitsValue(value.s, Len(value.s))
      [] value.t = "string"
            /\ \A n \in 1..Len(value.s) : ~IsDigit(SubSeq(value.s, n, n))
            /\ \A m \in 1..(Len(value.s) - 7) : SubSeq(value.s, m, m + 7) # "Infinity" -> 0

\* the outcome of a step that may have thrown: the throw, or what follows
Then(r, next) == IF readThrew(r) THEN r ELSE next

\* a method whose receiver must be the prototype object it is defined on (or
\* a wrapper object, which no parser is handed): the value that object wraps
Wrapped(this, prototype, primitive, method, class) ==
    IF this = prototype THEN primitive ELSE thrown(NotGenericError(method, class))

\* the string of one member of a join: empty for null and undefined
MemberString(m, converted) == IF m.t \in {"null", "undefined"} THEN Str("") ELSE converted

\* a member and the rest of a join put together
Joined(i, s, rest) ==
    Then(s, Then(rest, Str((IF i > 0 THEN "," ELSE "") \o s.s \o rest.s)))

\* the primitive value of an attempt of OrdinaryToPrimitive: the result of the
\* method, or what the next method gives when the property is no function or
\* the result an object
Attempt(method, r, next) ==
    IF method.t # "function" THEN next
    ELSE IF readThrew(r) THEN r
    ELSE IF IsObject(r) THEN next
    ELSE r

RECURSIVE CallBuiltin(_, _)
RECURSIVE ToPrimitive(_, _)
RECURSIVE Stringify(_)
RECURSIVE JoinFrom(_, _, _)

\* ToString of the primitive value a conversion came to, a throw kept
StringOf(p) == IF readThrew(p) THEN p ELSE Str(PrimitiveToString(p))

\* the join of the members below ToLength of the length the receiver has
JoinTo(this, len) == IF readThrew(len) THEN len ELSE JoinFrom(this, 0, PrimitiveToLength(len))

\* Array.prototype.join called on this, whose property length is length: an
\* object for a length is converted with hint number first
JoinWith(this, length) ==
    JoinTo(this, IF IsObject(length) THEN ToPrimitive(length, <<"valueOf", "toString">>)
                 ELSE length)

\* f.call(this) for the methods a conversion calls, this being an object: a
\* primitive value, an object or a throw
CallBuiltin(f, this) ==
    CASE IsMethod(f, "Object.prototype", "toString") ->
            Str("[object " \o BuiltinTag(this) \o "]")
      [] IsMethod(f, "Object.prototype", "valueOf") -> this
      [] IsMethod(f, "Array.prototype", "toString") ->
            IF Get(this, "join").t = "function"
            THEN CallBuiltin(Get(this, "join"), this)
            ELSE Str("[object " \o BuiltinTag(this) \o "]")
      [] IsMethod(f, "Array.prototype", "join") ->
            JoinWith(this, Get(this, "length"))
      [] IsMethod(f, "String.prototype", "toString") ->
            Wrapped(this, StringPrototype, Str(""), "String.prototype.toString", "String")
      [] IsMethod(f, "String.prototype", "valueOf") ->
            Wrapped(this, StringPrototype, Str(""), "String.prototype.valueOf", "String")
      [] IsMethod(f, "Number.prototype", "toString") ->
            Wrapped(this, NumberPrototype, Str("0"), "Number.prototype.toString", "Number")
      [] IsMethod(f, "Number.prototype", "valueOf") ->
            Wrapped(this, NumberPrototype, Num(0), "Number.prototype.valueOf", "Number")
      [] IsMethod(f, "Boolean.prototype", "toString") ->
            Wrapped(this, BooleanPrototype, Str("false"), "Boolean.prototype.toString",
                    "Boolean")
      [] IsMethod(f, "Boolean.prototype", "valueOf") ->
            Wrapped(this, BooleanPrototype, Bool(FALSE), "Boolean.prototype.valueOf",
                    "Boolean")
      [] IsMethod(f, "Function.prototype", "toString") ->
            IF this.t = "function"
            THEN Str("function " \o this.name \o "() { [native code] }")
            ELSE thrown(NotGenericError("Function.prototype.toString", "Function"))

\* OrdinaryToPrimitive(value, hint): the methods named are tried in order, the
\* first one that is callable and returns a primitive value decides
ToPrimitive(value, names) ==
    IF names = <<>> THEN thrown(TypeError)
    ELSE Attempt(Get(value, Head(names)),
                 CallBuiltin(Get(value, Head(names)), value),
                 ToPrimitive(value, Tail(names)))

\* ToString(value): a string value, or a throw
Stringify(value) ==
    IF IsObject(value)
    THEN StringOf(ToPrimitive(value, <<"toString", "valueOf">>))
    ELSE Str(PrimitiveToString(value))

\* Array.prototype.join(',') from the member i on, len being the length: null
\* and undefined members are empty strings, the others are converted
JoinFrom(this, i, len) ==
    IF i >= len THEN Str("")
    ELSE Joined(i,
                MemberString(Get(this, NatToString(i)), Stringify(Get(this, NatToString(i)))),
                JoinFrom(this, i + 1, len))

\* ToString(value) where it yields a string
ToStr(value) == Stringify(value).s

\* ToString(value) throws
ToStringThrows(value) == readThrew(Stringify(value))

(***************************************************************************)
(* The Result type.                                                        *)
(***************************************************************************)
success(value) == [type |-> "success", value |-> value]

failure(value, reason) == [type |-> "failure", value |-> value, reason |-> reason]

isSuccess(r) == r.type = "success"

isFailure(r) == r.type = "failure"

threw(r) == r.type = "throw"

\* mutant: reports the value's own category instead of its typeof
failTypeOf_category(value) == failure(value, "typeof value is " \o value.t)

failTypeOf(value) == failure(value, "typeof value is " \o TypeOf(value))

\* mutant: annotates the reason and keeps the child's value
keyedFailure_childValue(value, key, f) ==
    [f EXCEPT !.reason = "Failed at '" \o key \o "': " \o f.reason]

\* mutant: the segment is put after the child's reason
keyedFailure_segmentLast(value, key, f) ==
    [f EXCEPT !.value = value, !.reason = f.reason \o ": Failed at '" \o key \o "'"]

keyedFailure(value, key, f) ==
    [f EXCEPT !.value = value, !.reason = "Failed at '" \o key \o "': " \o f.reason]

(***************************************************************************)
(* The scalar parsers.                                                     *)
(***************************************************************************)
parseString(value) ==
    IF TypeOf(value) = "string" THEN success(value) ELSE failTypeOf(value)

\* mutant: a string that spells a number is taken for one
parseNumber_coerces(value) ==
    IF TypeOf(value) = "number" \/ (value.t = "string" /\ value.s = "1")
    THEN success(value) ELSE failTypeOf(value)

parseNumber(value) ==
    IF TypeOf(value) = "number" THEN success(value) ELSE failTypeOf(value)

parseUndefined(value) ==
    IF value = Undefined THEN success(Undefined) ELSE failTypeOf(value)

parseBoolean(value) ==
    IF TypeOf(value) = "boolean" THEN success(value) ELSE failTypeOf(value)

parseAnyValue(value) == success(value)

parseObject(value) ==
    IF TypeOf(value) = "object" /\ value # Null THEN success(value) ELSE failTypeOf(value)

parseArray(value) ==
    IF IsArray(value) THEN success(value) ELSE failure(value, "value is not Array.isArray")

\* mutant: value == option for primitives, which compares "1" and 1 as equal
parseExactly_loose(option, value) ==
    IF value = option
          \/ (value.t \in {"number", "string"} /\ option.t \in {"number", "string"}
                /\ ToStr(value) = ToStr(option))
    THEN success(option)
    ELSE failure(value, "is not " \o ToStr(option))

\* value === option, option being a string, a number or a boolean
parseExactly(option, value) ==
    IF value = option /\ value # Real("NaN") THEN success(option)
    ELSE failure(value, "is not " \o ToStr(option))

(***************************************************************************)
(* Parser terms.                                                           *)
(***************************************************************************)
PString == [k |-> "parseString"]
PNumber == [k |-> "parseNumber"]
PUndefined == [k |-> "parseUndefined"]
PBoolean == [k |-> "parseBoolean"]
PAnyValue == [k |-> "parseAnyValue"]
PObject == [k |-> "parseObject"]
PArray == [k |-> "parseArray"]
PExactly(option) == [k |-> "parseExactly", option |-> option]
\* fields: the declared fields in declaration order, [key, p] each
PObjectOf(fields) == [k |-> "parseObjectOf", fields |-> fields]
Field(key, p) == [key |-> key, p |-> p]
PIndexedObjectOf(p) == [k |-> "parseIndexedObjectOf", p |-> p]
PArrayOf(p) == [k |-> "parseArrayOf", p |-> p]
PMapParser(p, next) == [k |-> "mapParser", p |-> p, next |-> next]
\* ps: the first parser followed by the rest parameters
POneOf(ps) == [k |-> "parseOneOf", ps |-> ps]
POptional(p) == [k |-> "optional", p |-> p]
PVoidable(p) == [k |-> "voidable", p |-> p]

\* one invocation of a parser or of a transform, as logged
Call(fn, arg) == [fn |-> fn, arg |-> arg]

Ret(res, log) == [res |-> res, calls |-> log]

RECURSIVE Run(_, _)
RECURSIVE objectOfLoop(_, _, _, _, _)
RECURSIVE indexedLoop(_, _, _, _, _, _)
RECURSIVE arrayReduce(_, _, _, _, _)
RECURSIVE oneOfReduce(_, _, _, _, _)
RECURSIVE ApplyNext(_, _)

\* mutant: a falsy input is itself handed to the child
fieldValue_passesInput(value, key) == IF Truthy(value) THEN Get(value, key) ELSE value

\* value ? value[key] : undefined
fieldValue(value, key) == IF Truthy(value) THEN Get(value, key) ELSE Undefined

\* mutant: goes on after a failed field and reports the last failure
objectOfLoop_lastFailure(fields, value, i, acc, log) ==
    IF i > Len(fields) THEN Ret(success(acc), log)
    ELSE LET key == fields[i].key
             read == fieldValue(value, key)
             parsed == Run(fields[i].p, read)
             assigned == IF isFailure(parsed.res) THEN acc
                         ELSE Assign(acc, key, parsed.res.value)
             rest == objectOfLoop(fields, value, i + 1, assigned, log \o parsed.calls)
         IN  IF readThrew(read) THEN Ret(read, log)
             ELSE IF threw(parsed.res) THEN Ret(parsed.res, log \o parsed.calls)
             ELSE IF readThrew(assigned) THEN Ret(assigned, log \o parsed.calls)
             ELSE IF isFailure(parsed.res) /\ isSuccess(rest.res)
             THEN Ret(keyedFailure(value, key, parsed.res), rest.calls)
             ELSE rest

\* result[key] = parsed.value has been evaluated: an assignment that threw ends
\* the invocation, otherwise the loop goes on with the record assigned to
objectOfAssign(fields, value, i, log, assigned) ==
    IF readThrew(assigned) THEN Ret(assigned, log)
    ELSE objectOfLoop(fields, value, i + 1, assigned, log)

\* the child of the i-th field has been invoked: a child that threw ends the
\* invocation, a failure is returned with the key, a success is stored
objectOfChild(fields, value, i, acc, log, parsed) ==
    IF threw(parsed.res) THEN Ret(parsed.res, log \o parsed.calls)
    ELSE IF isFailure(parsed.res)
    THEN Ret(keyedFailure(value, fields[i].key, parsed.res), log \o parsed.calls)
    ELSE objectOfAssign(fields, value, i, log \o parsed.calls,
                        Assign(acc, fields[i].key, parsed.res.value))

\* value ? value[key] : undefined has been evaluated: a read that threw ends
\* the invocation, otherwise the child is invoked with what was read
objectOfRead(fields, value, i, acc, log, read) ==
    IF readThrew(read) THEN Ret(read, log)
    ELSE objectOfChild(fields, value, i, acc, log, Run(fields[i].p, read))

\* the for-in loop of parseObjectOf from the i-th enumerated field on, acc
\* being the record built so far; a read, a child or an assignment that throws
\* ends the invocation, nothing here catches
objectOfLoop(fields, value, i, acc, log) ==
    IF i > Len(fields) THEN Ret(success(acc), log)
    ELSE objectOfRead(fields, value, i, acc, log, fieldValue(value, fields[i].key))

\* mutant: the result starts as a copy of the input's own properties
parseObjectOf_copiesInput(fields, value) ==
    objectOfLoop(ForInOrder(fields), value, 1,
                 IF value.t = "object" THEN Obj(value.props) ELSE Obj(<<>>), <<>>)

\* parsers being the fields as declared, for (const key in parsers) visits
\* them in enumeration order
parseObjectOf(fields, value) ==
    objectOfLoop(ForInOrder(fields), value, 1, Obj(<<>>), <<>>)

\* result[key] = child.value has been evaluated
indexedAssign(p, value, keys, i, log, assigned) ==
    IF readThrew(assigned) THEN Ret(assigned, log)
    ELSE indexedLoop(p, value, keys, i + 1, assigned, log)

\* the child has been invoked with value[key]
indexedChild(p, value, keys, i, acc, log, child) ==
    IF threw(child.res) THEN Ret(child.res, log \o child.calls)
    ELSE IF isFailure(child.res)
    THEN Ret(keyedFailure(value, keys[i], child.res), log \o child.calls)
    ELSE indexedAssign(p, value, keys, i, log \o child.calls,
                       Assign(acc, keys[i], child.res.value))

\* the for-in loop of parseIndexedObjectOf from the i-th key on, keys being
\* the keys the loop enumerates and acc the record built so far
indexedLoop(p, value, keys, i, acc, log) ==
    IF i > Len(keys) THEN Ret(success(acc), log)
    ELSE indexedChild(p, value, keys, i, acc, log, Run(p, Get(value, keys[i])))

parseIndexedObjectOf(p, value) ==
    IF value = Null \/ value = Undefined
    THEN Ret(failure(value, "value is null or undefined"), <<>>)
    ELSE IF TypeOf(value) # "object" THEN Ret(failTypeOf(value), <<>>)
    ELSE indexedLoop(p, value, ForInKeys(value), 1, Obj(<<>>), <<>>)

\* mutant: only the child's own failure is rewritten to the outer value
mapParser_transformAsIs(p, next, value) ==
    LET first == Run(p, value)
    IN  IF isSuccess(first.res)
        THEN LET n == ApplyNext(next, first.res.value)
             IN  Ret(n.res, first.calls \o n.calls)
        ELSE IF isFailure(first.res)
        THEN Ret([first.res EXCEPT !.value = value], first.calls)
        ELSE first

\* the invocations of a first step followed by those of a second, with the
\* Result of the second
AndThen(log, second) == Ret(second.res, log \o second.calls)

\* mapSuccess(result, next): next is applied to the value of a success
mapSuccess(first, next) ==
    IF isSuccess(first.res) THEN AndThen(first.calls, ApplyNext(next, first.res.value))
    ELSE first

\* mapFailure(result, f => ({...f, value})): a failure is given the value
mapFailure(mapped, value) ==
    IF isFailure(mapped.res) THEN Ret([mapped.res EXCEPT !.value = value], mapped.calls)
    ELSE mapped

\* mapParser: mapFailure(mapSuccess(validator(value), next), f => ({...f, value}))
mapParser(p, next, value) == mapFailure(mapSuccess(Run(p, value), next), value)

\* mutant: every member is parsed, and the last failure is the one reported
arrayReduce_keepsGoing(p, value, i, res, log) ==
    IF i > Len(value.items) \/ threw(res) THEN Ret(res, log)
    ELSE LET member == Run(p, value.items[i])
             step == IF threw(member.res) THEN member.res
                     ELSE IF isFailure(member.res)
                     THEN keyedFailure(value, NatToString(i - 1), member.res)
                     ELSE IF isSuccess(res)
                     THEN success(Arr(Append(res.value.items, member.res.value)))
                     ELSE res
         IN  arrayReduce(p, value, i + 1, step, log \o member.calls)

\* mutant: a parsed member is put in front of the items parsed so far
arrayReduce_prepends(p, value, i, res, log) ==
    IF i > Len(value.items) THEN Ret(res, log)
    ELSE IF isSuccess(res)
         THEN LET member == Run(p, value.items[i])
                  step == IF isSuccess(member.res)
                          THEN success(Arr(<<member.res.value>> \o res.value.items))
                          ELSE IF threw(member.res) THEN member.res
                          ELSE keyedFailure(value, NatToString(i - 1), member.res)
              IN  arrayReduce(p, value, i + 1, step, log \o member.calls)
         ELSE arrayReduce(p, value, i + 1, res, log)

\* the callback of the reduce for a member whose parser ended with member,
\* the items parsed so far being those of res
memberResult(value, i, res, member) ==
    IF isSuccess(member) THEN success(Arr(Append(res.value.items, member.value)))
    ELSE IF threw(member) THEN member
    ELSE keyedFailure(value, NatToString(i - 1), member)

arrayStep(p, value, i, res, log, member) ==
    arrayReduce(p, value, i + 1, memberResult(value, i, res, member.res),
                log \o member.calls)

\* value.reduce(..., success([])) of parseArrayOf from the i-th member on; a
\* member whose parser throws ends the reduce, so none is parsed after it
arrayReduce(p, value, i, res, log) ==
    IF i > Len(value.items) THEN Ret(res, log)
    ELSE IF isSuccess(res) THEN arrayStep(p, value, i, res, log, Run(p, value.items[i]))
    ELSE arrayReduce(p, value, i + 1, res, log)

\* n > 0 for a number n
IsPositive(a) ==
    IF IsReal(a)
    THEN a.lit \in {"1.7976931348623157e+308", "5e-324", "2.220446049250313e-16",
                    "9007199254740991", "Infinity"}
    ELSE a.n > 0

\* an invocation logged in front of the invocations it made
Logged(call, r) == Ret(r.res, <<call>> \o r.calls)

\* a transform handed to mapParser, applied to the child's success value
ApplyNext(next, a) ==
    CASE next.k = "reduce" ->
            Logged(Call(next, a), arrayReduce(next.p, a, 1, success(Arr(<<>>)), <<>>))
      [] next.k = "positive" ->
            Ret(IF IsPositive(a) THEN success(a)
                ELSE failure(a, ToStr(a) \o " is less than 0"),
                <<Call(next, a)>>)
      [] next.k = "const" -> Ret(next.res, <<Call(next, a)>>)

parseArrayOf(p, value) == mapParser(PArray, [k |-> "reduce", p |-> p], value)

\* mutant: every parser is tried, and the last one decides
oneOfReduce_lastWins(ps, value, i, res, log) ==
    IF i > Len(ps) \/ threw(res) THEN Ret(res, log)
    ELSE LET r == Run(ps[i], value)
         IN  oneOfReduce(ps, value, i + 1, r.res, log \o r.calls)

\* the reduce goes on with the Result of the i-th parser
oneOfNext(ps, value, i, log, r) ==
    oneOfReduce(ps, value, i + 1, r.res, log \o r.calls)

\* parsers.reduce((result, validator) => mapFailure(result, () => validator(value)), ...)
oneOfReduce(ps, value, i, res, log) ==
    IF i > Len(ps) THEN Ret(res, log)
    ELSE IF isFailure(res) THEN oneOfNext(ps, value, i, log, Run(ps[i], value))
    ELSE oneOfReduce(ps, value, i + 1, res, log)

\* mapFailure(result, () => failure(value, `'${value}' did not match any of
\* ${count} validators`)): the template literal converts value to a string,
\* converted being that string or the throw of the conversion
failNoMatch(count, value, all, converted) ==
    IF ~isFailure(all.res) THEN all
    ELSE IF readThrew(converted) THEN Ret(converted, all.calls)
    ELSE Ret(failure(value, "'" \o converted.s \o "' did not match any of "
                               \o NatToString(count) \o " validators"),
             all.calls)

\* the reduce over the rest parameters, started with the Result of the first
\* parser
oneOfFrom(ps, value, first) == oneOfReduce(ps, value, 2, first.res, first.calls)

\* mutant: the reason counts the rest parameters only
parseOneOf_countsRest(ps, value) ==
    IF Len(ps) - 1 = 0 THEN Run(ps[1], value)
    ELSE failNoMatch(Len(ps) - 1, value, oneOfFrom(ps, value, Run(ps[1], value)),
                 Stringify(value))

\* the template literal of the synthesized failure converts value to a string,
\* which throws for a value ToString cannot convert
parseOneOf(ps, value) ==
    IF Len(ps) - 1 = 0 THEN Run(ps[1], value)
    ELSE failNoMatch((Len(ps) - 1) + 1, value, oneOfFrom(ps, value, Run(ps[1], value)),
                 Stringify(value))

\* mutant: value == null, which undefined satisfies as well
optional_looseNull(p, value) ==
    IF value = Null \/ value = Undefined THEN Ret(success(Null), <<>>) ELSE Run(p, value)

optional(p, value) == IF value = Null THEN Ret(success(Null), <<>>) ELSE Run(p, value)

voidable(p, value) ==
    IF value = Undefined THEN Ret(success(Undefined), <<>>) ELSE Run(p, value)

\* the invocation p(value): the Result and the invocations made below it
Apply(p, value) ==
    CASE p.k = "parseString" -> Ret(parseString(value), <<>>)
      [] p.k = "parseNumber" -> Ret(parseNumber(value), <<>>)
      [] p.k = "parseUndefined" -> Ret(parseUndefined(value), <<>>)
      [] p.k = "parseBoolean" -> Ret(parseBoolean(value), <<>>)
      [] p.k = "parseAnyValue" -> Ret(parseAnyValue(value), <<>>)
      [] p.k = "parseObject" -> Ret(parseObject(value), <<>>)
      [] p.k = "parseArray" -> Ret(parseArray(value), <<>>)
      [] p.k = "parseExactly" -> Ret(parseExactly(p.option, value), <<>>)
      [] p.k = "parseObjectOf" -> parseObjectOf(p.fields, value)
      [] p.k = "parseIndexedObjectOf" -> parseIndexedObjectOf(p.p, value)
      [] p.k = "parseArrayOf" -> parseArrayOf(p.p, value)
      [] p.k = "mapParser" -> mapParser(p.p, p.next, value)
      [] p.k = "parseOneOf" -> parseOneOf(p.ps, value)
      [] p.k = "optional" -> optional(p.p, value)
      [] p.k = "voidable" -> voidable(p.p, value)

\* parseOneOf(parser) with no rest parameters returns parser itself: the term
\* denotes the very closure of its only parser
IsAlias(p) == p.k = "parseOneOf" /\ Len(p.ps) - 1 = 0

\* p(value), logged: the invocation itself first, then those it makes
Run(p, value) ==
    IF IsAlias(p) THEN Apply(p, value) ELSE Logged(Call(p, value), Apply(p, value))

(***************************************************************************)
(* Objects by reference.  A client holds an object or an array by          *)
(* reference: the heap has the object of each reference, an invocation is  *)
(* handed a reference and a Result carries one.  What an invocation        *)
(* creates (let result = {}, success([])) it creates in a cell that held   *)
(* nothing, and the loop that fills it starts from what that cell holds.   *)
(* The values inside an object are held by value, and so are the objects   *)
(* the parsers below the invoked one create.                               *)
(***************************************************************************)
Cells == 1..MaxCells

\* a cell that holds no object
Free == [t |-> "free"]

NoObjects == [a \in Cells |-> Free]

Ref(a) == [t |-> "ref", at |-> a]

IsRef(v) == v.t = "ref"

\* the object a reference refers to; a primitive value is itself
Deref(objects, v) == IF IsRef(v) THEN objects[v.at] ELSE v

\* the first cell that holds nothing
FreeCell(objects) ==
    CHOOSE a \in Cells : objects[a] = Free /\ \A b \in 1..(a - 1) : objects[b] # Free

\* mutant: the accumulator is the object made last, one accumulator serving
\* every invocation
Accumulator_lastMade(objects) ==
    IF \E a \in Cells : objects[a] # Free
    THEN CHOOSE a \in Cells : objects[a] # Free /\ \A b \in (a + 1)..MaxCells : objects[b] = Free
    ELSE FreeCell(objects)

\* where let result = {} and success([]) put the object they create: each
\* evaluation creates a new object
Accumulator(objects) == FreeCell(objects)

\* the heap with object in cell a
Create(objects, a, object) == [objects EXCEPT ![a] = object]

\* a failure carries the value the invocation was handed (failure(value, ...),
\* {...failure, value}), whatever failed below
Carried(v, res) == IF isFailure(res) THEN [res EXCEPT !.value = v] ELSE res

\* the invocation handed v ended with r, its accumulator being in cell a: a
\* success carries the accumulator as it stands, a failure carries v, and an
\* accumulator that is not returned is gone with the invocation
Finished(made, a, v, r) ==
    IF isSuccess(r.res)
    THEN [res |-> success(Ref(a)), calls |-> r.calls,
          heap |-> Create(made, a, r.res.value)]
    ELSE [res |-> Carried(v, r.res), calls |-> r.calls,
          heap |-> Create(made, a, Free)]

\* the closure of parseObjectOf: let result = {}, then the loop on result
parseObjectOfAt(objects, fields, v) ==
    LET a == Accumulator(objects)
        made == Create(objects, a, Obj(<<>>))
    IN  Finished(made, a, v,
                 objectOfLoop(ForInOrder(fields), Deref(made, v), 1, made[a], <<>>))

\* the closure of parseIndexedObjectOf: let result = {} comes before the tests
\* of value
parseIndexedObjectOfAt(objects, p, v) ==
    LET a == Accumulator(objects)
        made == Create(objects, a, Obj(<<>>))
        value == Deref(made, v)
    IN  Finished(made, a, v,
                 IF value = Null \/ value = Undefined
                 THEN Ret(failure(value, "value is null or undefined"), <<>>)
                 ELSE IF TypeOf(value) # "object" THEN Ret(failTypeOf(value), <<>>)
                 ELSE indexedLoop(p, value, ForInKeys(value), 1, made[a], <<>>))

\* the parsers that end with success(value), value being what they were handed
HandsOn(p) ==
    p.k \in {"parseString", "parseNumber", "parseUndefined", "parseBoolean",
             "parseAnyValue", "parseObject", "parseArray"}

\* a scalar parser p handed v ended with r: the value of its success is v
\* where p hands its value on (parseExactly succeeds with its option)
Pointing(objects, p, v, r) ==
    [res |-> IF isSuccess(r.res) /\ HandsOn(p) THEN success(v) ELSE Carried(v, r.res),
     calls |-> r.calls, heap |-> objects]

\* r with the invocation that made it logged in front
LoggedAt(call, r) == [r EXCEPT !.calls = <<call>> \o @]

\* the invocations of a first step followed by those of a second, with the
\* Result and the heap of the second
AndThenAt(log, second) == [second EXCEPT !.calls = log \o @]

\* the Result carries the object in cell a
Carries(res, a) == (isSuccess(res) \/ isFailure(res)) /\ res.value = Ref(a)

\* an object the invocation created and its Result does not carry is gone
\* with the invocation, before being the heap the invocation started on
Settled(before, r) ==
    [r EXCEPT !.heap = [a \in Cells |-> IF before[a] = Free /\ ~Carries(r.res, a)
                                          THEN Free ELSE @[a]]]

\* a transform that creates no object, applied to a, ended with r: n > 0 ?
\* success(n) : failure(n, ...) carries its argument, a constant Result is
\* what it is
Applied(objects, next, a, r) ==
    [res |-> IF next.k = "positive" THEN Carried(a, r.res) ELSE r.res,
     calls |-> r.calls, heap |-> objects]

\* a transform handed to mapParser, applied to a on the heap objects: the
\* reduce of parseArrayOf creates its accumulator, success([]), the cell
\* holding [] and then the array items.concat made last
ApplyNextAt(objects, next, a) ==
    IF next.k = "reduce"
    THEN LET c == Accumulator(objects)
             made == Create(objects, c, Arr(<<>>))
         IN  Finished(made, c, a,
                      Logged(Call(next, Deref(made, a)),
                             arrayReduce(next.p, Deref(made, a), 1, success(made[c]),
                                         <<>>)))
    ELSE Applied(objects, next, a, ApplyNext(next, Deref(objects, a)))

\* mapSuccess(result, next) on the heap the first step left
mapSuccessAt(first, next) ==
    IF isSuccess(first.res)
    THEN AndThenAt(first.calls, ApplyNextAt(first.heap, next, first.res.value))
    ELSE first

\* mapFailure(result, f => ({...f, value}))
mapFailureAt(mapped, v) == [mapped EXCEPT !.res = Carried(v, @)]

\* the reduce of parseOneOf goes on from the i-th parser, r being the Result
\* so far and the heap it left
RECURSIVE RunAt(_, _, _)
RECURSIVE oneOfReduceAt(_, _, _, _)
oneOfReduceAt(ps, v, i, r) ==
    IF i > Len(ps) THEN r
    ELSE IF isFailure(r.res)
    THEN oneOfReduceAt(ps, v, i + 1, AndThenAt(r.calls, RunAt(r.heap, ps[i], v)))
    ELSE oneOfReduceAt(ps, v, i + 1, r)

\* the failure parseOneOf makes when every parser failed, converted being the
\* string the template literal made of the value, or its throw
failNoMatchAt(count, v, value, all, converted) ==
    IF ~isFailure(all.res) THEN all
    ELSE [res |-> Carried(v, failNoMatch(count, value, Ret(all.res, all.calls),
                                         converted).res),
          calls |-> all.calls, heap |-> all.heap]

\* p(v) on the heap objects: the Result, the invocations made and the heap the
\* invocation leaves
RunAt(objects, p, v) ==
    CASE p.k = "parseObjectOf" ->
            LoggedAt(Call(p, Deref(objects, v)), parseObjectOfAt(objects, p.fields, v))
      [] p.k = "parseIndexedObjectOf" ->
            LoggedAt(Call(p, Deref(objects, v)), parseIndexedObjectOfAt(objects, p.p, v))
      [] p.k = "parseArrayOf" ->
            LoggedAt(Call(p, Deref(objects, v)),
                     Settled(objects,
                             mapFailureAt(mapSuccessAt(RunAt(objects, PArray, v),
                                                       [k |-> "reduce", p |-> p.p]), v)))
      [] p.k = "mapParser" ->
            LoggedAt(Call(p, Deref(objects, v)),
                     Settled(objects,
                             mapFailureAt(mapSuccessAt(RunAt(objects, p.p, v), p.next), v)))
      [] p.k = "parseOneOf" ->
            IF IsAlias(p) THEN RunAt(objects, p.ps[1], v)
            ELSE LoggedAt(Call(p, Deref(objects, v)),
                          failNoMatchAt((Len(p.ps) - 1) + 1, v, Deref(objects, v),
                                        oneOfReduceAt(p.ps, v, 2,
                                                      RunAt(objects, p.ps[1], v)),
                                        Stringify(Deref(objects, v))))
      [] p.k = "optional" ->
            LoggedAt(Call(p, Deref(objects, v)),
                     IF v = Null THEN Pointing(objects, p, v, Ret(success(Null), <<>>))
                     ELSE RunAt(objects, p.p, v))
      [] p.k = "voidable" ->
            LoggedAt(Call(p, Deref(objects, v)),
                     IF v = Undefined
                     THEN Pointing(objects, p, v, Ret(success(Undefined), <<>>))
                     ELSE RunAt(objects, p.p, v))
      [] OTHER -> Pointing(objects, p, v, Run(p, Deref(objects, v)))

\* what a Result says: its variant, its reason and the object its value is
Outcome(objects, res) ==
    IF isSuccess(res) \/ isFailure(res) THEN [res EXCEPT !.value = Deref(objects, @)]
    ELSE res

(***************************************************************************)
(* The values and the parsers explored.                                    *)
(***************************************************************************)
Keys == {"a", "b"}

Scalars ==
    {Null, Undefined, Bool(TRUE), Bool(FALSE), Str(""), Str("a"), Str("1")}
        \cup {Num(n) : n \in 0..MaxNum}

\* the values found inside containers
Members ==
    {Null, Undefined, Num(1), Str("a"),
     Arr(<<Str("a")>>),
     Arr(<<Obj(<<Prop("a", Num(1))>>), Obj(<<Prop("a", Str("a"))>>)>>),
     Obj(<<Prop("a", Str("a"))>>),
     Obj(<<Prop("a", Num(1)), Prop("b", Str("a"))>>)}

Arrays == {Arr(s) : s \in UNION {[1..n -> Members] : n \in 0..MaxLen}}

\* the key lists of an object: distinct keys, either order
KeyLists ==
    {<<>>} \cup {<<k>> : k \in Keys}
        \cup {<<kk[1], kk[2]>> : kk \in {kk \in Keys \X Keys : kk[1] # kk[2]}}

Objects ==
    {Obj([i \in 1..Len(kv[1]) |-> Prop(kv[1][i], kv[2][i])]) :
        kv \in UNION {{ks} \X [1..Len(ks) -> Members] : ks \in KeyLists}}

\* documents with a key that names a property of Object.prototype, alone and
\* inside a container
Reserved ==
    {Obj(<<Prop("toString", Num(1))>>),
     Obj(<<Prop("__proto__", Str("a"))>>),
     Obj(<<Prop("a", Str("a")), Prop("__proto__", Obj(<<Prop("a", Str("a"))>>))>>),
     Obj(<<Prop("a", Obj(<<Prop("toString", Num(1))>>))>>),
     Arr(<<Str("a"), Obj(<<Prop("toString", Num(1))>>)>>),
     Obj(<<Prop("__proto__", Null)>>),
     Obj(<<Prop("__proto__", Null), Prop("__proto__x", Num(1))>>),
     Obj(<<Prop("__proto__", Arr(<<Str("a")>>)), Prop("length", Str("a"))>>),
     Obj(<<Prop("__proto__", Str("a")), Prop("length", Num(1))>>)}

\* documents with an index key, their own properties in enumeration order
Indexed ==
    {Obj(<<Prop("0", Num(1))>>),
     Obj(<<Prop("0", Str("a")), Prop("b", Str("a"))>>),
     Obj(<<Prop("0", Num(1)), Prop("1", Str("a")), Prop("a", Str("a"))>>)}

Values == Scalars \cup Arrays \cup Objects \cup Reserved \cup Indexed

Options == {Str("a"), Str("1"), Num(1), Bool(TRUE)}

\* the transforms handed to mapParser
Positive == [k |-> "positive"]
Const(res) == [k |-> "const", res |-> res]
Transforms == {Const(success(Str("ok"))), Const(failure(Null, "rejected"))}

\* the parsers composed below a combinator
Children ==
    {PString, PNumber, PUndefined, PAnyValue, PExactly(Str("a")),
     PVoidable(PString), POptional(PNumber),
     POneOf(<<PUndefined, PString>>),
     PObjectOf(<<Field("a", PNumber)>>),
     PArrayOf(PNumber),
     PArrayOf(PObjectOf(<<Field("a", PNumber)>>)),
     PIndexedObjectOf(PString),
     PObjectOf(<<Field("__proto__", PAnyValue)>>),
     PMapParser(PNumber, Positive),
     PMapParser(PString, Const(success(Str("ok"))))}

FieldParsers ==
    {PString, PNumber, PUndefined, PVoidable(PString),
     PObjectOf(<<Field("a", PNumber)>>), PArrayOf(PNumber)}

FieldLists ==
    {[i \in 1..Len(kp[1]) |-> Field(kp[1][i], kp[2][i])] :
        kp \in UNION {{ks} \X [1..Len(ks) -> FieldParsers] : ks \in KeyLists}}
    \cup {<<Field(kp[1], kp[2])>> : kp \in Keys \X Children}
    \cup {<<Field(k, p)>> : k \in {"toString", "constructor", "__proto__", "length", "0"},
                             p \in {PVoidable(PString), PUndefined, PAnyValue, PNumber}}
    \cup {<<Field("b", kp[1]), Field(kp[2], kp[3])>> :
                kp \in {PString, PUndefined} \X {"0", "1"} \X {PNumber, PString, PUndefined}}
    \cup {<<Field("b", PAnyValue), Field("10", PString), Field("9", PNumber)>>}
    \cup {<<Field("toString", PObjectOf(<<Field(k, PAnyValue)>>))>> :
                k \in {"length", "name", "call", "caller"}}
    \cup {<<Field("toString", PObjectOf(<<Field("length", PNumber)>>))>>}
    \cup {<<Field("constructor", PObjectOf(<<Field(k, p)>>))>> :
                k \in {"keys", "assign", "prototype", "MAX_VALUE", "name"},
                p \in {PUndefined, PAnyValue}}
    \cup {<<Field("__proto__", PAnyValue), Field(k, PAnyValue)>> :
                k \in {"length", "a", "toString"}}
    \cup {<<Field("__proto__", PObjectOf(<<Field(k, p)>>))>> :
                k \in {"length", "__proto__", "constructor"},
                p \in {PNumber, PAnyValue}}
    \cup {<<Field("__proto__", POneOf(<<PString, PNumber>>))>>}
    \cup {<<Field("__proto__", PObjectOf(<<Field("__proto__", PAnyValue)>>)),
             Field(k, PAnyValue)>> : k \in {"length", "a"}}
    \cup {<<Field("toString", PAnyValue),
             Field("__proto__", PObjectOf(<<Field("__proto__", PAnyValue)>>)),
             Field("length", PAnyValue)>>}

\* the (parser, transform) pairs handed to mapParser
MapPairs == (Children \X Transforms) \cup {<<PNumber, Positive>>}

Alternatives == {PString, PNumber, PObject, PObjectOf(<<Field("a", PVoidable(PNumber))>>)}

ParserLists == UNION {[1..n -> Alternatives] : n \in 1..MaxParsers}

NoParser == [k |-> "none"]
NoResult == [type |-> "none"]
NoKept == [held |-> FALSE]

Init ==
    /\ pc = "idle"
    /\ parser = NoParser
    /\ input = Undefined
    /\ result = NoResult
    /\ calls = <<>>
    /\ kept = NoKept
    /\ heap = NoObjects

\* the client composes p and invokes p(value)
Invoke(p, value) ==
    /\ pc' = "called"
    /\ parser' = p
    /\ input' = value
    /\ UNCHANGED <<result, calls, kept, heap>>

CallParseString ==
    pc = "idle" /\ \E x \in Values : Invoke(PString, x)
CallParseNumber ==
    pc = "idle" /\ \E x \in Values : Invoke(PNumber, x)
CallParseUndefined ==
    pc = "idle" /\ \E x \in Values : Invoke(PUndefined, x)
CallParseBoolean ==
    pc = "idle" /\ \E x \in Values : Invoke(PBoolean, x)
CallParseAnyValue ==
    pc = "idle" /\ \E x \in Values : Invoke(PAnyValue, x)
CallParseObject ==
    pc = "idle" /\ \E x \in Values : Invoke(PObject, x)
CallParseArray ==
    pc = "idle" /\ \E x \in Values : Invoke(PArray, x)
CallParseExactly ==
    pc = "idle" /\ \E o \in Options, x \in Values : Invoke(PExactly(o), x)
CallParseObjectOf ==
    pc = "idle" /\ \E fs \in FieldLists, x \in Values : Invoke(PObjectOf(fs), x)
CallParseIndexedObjectOf ==
    pc = "idle" /\ \E p \in Children, x \in Values : Invoke(PIndexedObjectOf(p), x)
CallParseArrayOf ==
    pc = "idle" /\ \E p \in Children, x \in Values : Invoke(PArrayOf(p), x)
CallMapParser ==
    pc = "idle" /\ \E pn \in MapPairs, x \in Values : Invoke(PMapParser(pn[1], pn[2]), x)
CallParseOneOf ==
    pc = "idle" /\ \E ps \in ParserLists, x \in Values : Invoke(POneOf(ps), x)
CallOptional ==
    pc = "idle" /\ \E p \in Children, x \in Values : Invoke(POptional(p), x)
CallVoidable ==
    pc = "idle" /\ \E p \in Children, x \in Values : Invoke(PVoidable(p), x)

\* the client holds what the invocation ended with: the Result returned or
\* the error thrown, and the invocations made
Ended(r) ==
    /\ pc' = IF threw(r.res) THEN "thrown" ELSE "returned"
    /\ result' = r.res
    /\ calls' = r.calls

\* the invocation runs to its end: it returns its Result, or it throws
Return ==
    /\ pc = "called"
    /\ Ended(Run(parser, input))
    /\ UNCHANGED <<parser, input, kept, heap>>

\* the client drops the Result it holds
Discard ==
    /\ pc \in {"returned", "thrown"}
    /\ pc' = "idle"
    /\ parser' = NoParser
    /\ input' = Undefined
    /\ result' = NoResult
    /\ calls' = <<>>
    /\ UNCHANGED <<kept, heap>>

Next ==
    \/ CallParseString
    \/ CallParseNumber
    \/ CallParseUndefined
    \/ CallParseBoolean
    \/ CallParseAnyValue
    \/ CallParseObject
    \/ CallParseArray
    \/ CallParseExactly
    \/ CallParseObjectOf
    \/ CallParseIndexedObjectOf
    \/ CallParseArrayOf
    \/ CallMapParser
    \/ CallParseOneOf
    \/ CallOptional
    \/ CallVoidable
    \/ Return
    \/ Discard

Spec == Init /\ [][Next]_vars

(***************************************************************************)
(* A client that composes a parser once and invokes it again and again,    *)
(* holding on to the outcome of its first invocation.  It hands objects    *)
(* and arrays by reference.                                                *)
(***************************************************************************)
\* the parsers composed once and invoked repeatedly
Repeated ==
    Children \cup {PArrayOf(p) : p \in Children}
        \cup {PIndexedObjectOf(p) : p \in Children}
        \cup {PObjectOf(<<Field("a", p)>>) : p \in Children}
        \cup {POneOf(<<PString, PObject>>), POneOf(<<PObject, PString>>),
              POneOf(<<PString, PAnyValue>>), POneOf(<<PNumber, PArray>>),
              POneOf(<<PObjectOf(<<Field("a", PNumber)>>), PAnyValue>>),
              POptional(POneOf(<<PObject, PString>>)),
              PMapParser(PObjectOf(<<Field("a", PNumber)>>), Const(success(Str("ok")))),
              PMapParser(PAnyValue, Const(failure(Null, "rejected")))}

\* the inputs of the invocation whose outcome is held on to
FirstInputs == Scalars \cup Members \cup Reserved

\* the client invokes p(value), an object or an array being a new one
Hand(p, value) ==
    /\ pc' = "called"
    /\ parser' = p
    /\ IF IsObject(value)
       THEN /\ input' = Ref(FreeCell(heap))
            /\ heap' = Create(heap, FreeCell(heap), value)
       ELSE /\ input' = value
            /\ heap' = heap
    /\ UNCHANGED <<result, calls>>

\* the client composes p and invokes it for the first time
InvokeFirst ==
    /\ pc = "idle"
    /\ ~kept.held
    /\ \E p \in Repeated, x \in FirstInputs : Hand(p, x)
    /\ UNCHANGED kept

\* the client holds what the invocation ended with, and the heap is as the
\* invocation left it
EndedAt(r) == Ended(r) /\ heap' = r.heap

\* the invocation runs to its end on the heap
ReturnAt ==
    /\ pc = "called"
    /\ EndedAt(RunAt(heap, parser, input))
    /\ UNCHANGED <<parser, input, kept>>

\* the client holds on to the parser, its input and the outcome; given and
\* outcome: what the input and the Result are at this moment
Keep ==
    /\ pc \in {"returned", "thrown"}
    /\ ~kept.held
    /\ kept' = [held |-> TRUE, parser |-> parser, input |-> input, result |-> result,
                given |-> Deref(heap, input), outcome |-> Outcome(heap, result),
                interleaved |-> FALSE]
    /\ pc' = "idle"
    /\ parser' = NoParser
    /\ input' = Undefined
    /\ result' = NoResult
    /\ calls' = <<>>
    /\ UNCHANGED heap

\* the client invokes the parser it composed once more on the input it holds
InvokeAgain ==
    /\ pc = "idle"
    /\ kept.held
    /\ pc' = "called"
    /\ parser' = kept.parser
    /\ input' = kept.input
    /\ UNCHANGED <<result, calls, kept, heap>>

\* the client invokes the parser it composed on another input; interleaved: an
\* invocation on an input that differs from the one held has been made
InvokeOther ==
    /\ pc = "idle"
    /\ kept.held
    /\ Cardinality({a \in Cells : heap[a] = Free}) >= 2
    /\ \E x \in Values :
          /\ Hand(kept.parser, x)
          /\ kept' = [kept EXCEPT !.interleaved = @ \/ x # kept.given]

\* the cells the client holds on to
KeptCells ==
    IF kept.held
    THEN {v.at : v \in {w \in {kept.input} \cup (IF threw(kept.result) THEN {}
                                                   ELSE {kept.result.value}) : IsRef(w)}}
    ELSE {}

\* the client drops the Result it holds and the input it handed, and with them
\* the objects nothing else refers to
Drop ==
    /\ pc \in {"returned", "thrown"}
    /\ pc' = "idle"
    /\ parser' = NoParser
    /\ input' = Undefined
    /\ result' = NoResult
    /\ calls' = <<>>
    /\ heap' = [a \in Cells |-> IF a \in KeptCells THEN heap[a] ELSE Free]
    /\ UNCHANGED kept

NextRepeat ==
    \/ InvokeFirst
    \/ ReturnAt
    \/ Keep
    \/ InvokeAgain
    \/ InvokeOther
    \/ Drop

SpecRepeat == Init /\ [][NextRepeat]_vars

(***************************************************************************)
(* The claims.                                                             *)
(***************************************************************************)
Returned == pc = "returned"

\* the fields of the record parser in the order its loop visits them
Visited == ForInOrder(parser.fields)

\* the value parseObjectOf hands to the child of a field
ChildInputOf(field) == fieldValue(input, field.key)

\* the child of a field rejects its value
RejectedOf(field) == isFailure(Run(field.p, ChildInputOf(field)).res)

\* the invocations made for the fields 1..n of a list, in order
RECURSIVE CallsOf(_, _)
CallsOf(fields, n) ==
    IF n = 0 THEN <<>>
    ELSE CallsOf(fields, n - 1) \o Run(fields[n].p, ChildInputOf(fields[n])).calls

\* the same for the i-th visited field
ChildInput(i) == ChildInputOf(Visited[i])

FieldRejected(i) == RejectedOf(Visited[i])

FieldCalls(n) == CallsOf(Visited, n)

\* the statement of C3 for the fields taken in the given order
FailFast(fields) ==
    (Returned /\ parser.k = "parseObjectOf")
        => \A i \in 1..Len(fields) :
              (RejectedOf(fields[i]) /\ \A j \in 1..(i - 1) : ~RejectedOf(fields[j]))
                  => /\ result = failure(input,
                                    "Failed at '" \o fields[i].key \o "': "
                                        \o Run(fields[i].p, ChildInputOf(fields[i])).res.reason)
                     /\ calls = <<Call(parser, input)>> \o CallsOf(fields, i)

\* C1: whenever a parser composed of the library's parsers and combinators, at
\* any nesting, returns a failure, the failure's value is the very input handed
\* to the outermost parser.
C1_FailureValueIsOuterInput ==
    (Returned /\ isFailure(result)) => result.value = input

\* a record parser two levels above the parser that failed: the failure came
\* from a member of a field of the input
C1_Witness ==
    /\ Returned
    /\ parser = PObjectOf(<<Field("b", PArrayOf(PObjectOf(<<Field("a", PNumber)>>)))>>)
    /\ isFailure(result)
    /\ result.reason = "Failed at 'b': Failed at '1': Failed at 'a': typeof value is string"

ScalarParsers == {PString, PNumber, PBoolean, PUndefined, PObject, PArray}

\* C2 as stated: every scalar parser, the generic sequence parser included,
\* rejects x with value x and reason 'typeof value is ' followed by typeof x.
C2_Original ==
    (Returned /\ parser \in ScalarParsers /\ isFailure(result))
        => result = failure(input, "typeof value is " \o TypeOf(input))

\* C2 (amended): parseString, parseNumber, parseBoolean, parseUndefined and
\* parseObject reject x with value x and reason 'typeof value is ' followed by
\* typeof x; parseArray rejects x with value x and reason
\* 'value is not Array.isArray'.
C2_ScalarFailure ==
    (Returned /\ parser \in ScalarParsers /\ isFailure(result))
        => IF parser = PArray
           THEN result = failure(input, "value is not Array.isArray")
           ELSE result = failure(input, "typeof value is " \o TypeOf(input))

\* parseString rejected null, whose typeof is 'object'
C2_Witness ==
    /\ Returned
    /\ parser = PString
    /\ input = Null
    /\ result = failure(Null, "typeof value is object")

\* C3 as stated: when a declared field's child rejects its value,
\* parseObjectOf returns the failure of the first such field k in declaration
\* order, with the whole input as value and reason
\* "Failed at '<k>': <child reason>", and has invoked the children of the
\* fields declared up to k and of no later field.
C3_Original == FailFast(parser.fields)

\* C3 (amended): the same with the fields taken in the order the loop visits
\* them: those whose keys are array indices first, in ascending numeric order,
\* then the others in declaration order.
C3_ObjectOfFailFast == FailFast(Visited)

\* a record parser declaring b before 0 whose children both reject: the field
\* 0, declared last, was visited first and is the one reported
C3_Witness ==
    /\ Returned
    /\ parser.k = "parseObjectOf"
    /\ Len(parser.fields) = 2
    /\ parser.fields[1].key = "b"
    /\ parser.fields[2].key = "0"
    /\ RejectedOf(parser.fields[1])
    /\ RejectedOf(parser.fields[2])
    /\ Run(parser.fields[1].p, ChildInputOf(parser.fields[1])).res.reason
           # Run(parser.fields[2].p, ChildInputOf(parser.fields[2])).res.reason
    /\ result = failure(input, "Failed at '0': "
                   \o Run(parser.fields[2].p, ChildInputOf(parser.fields[2])).res.reason)
    /\ calls = <<Call(parser, input), Call(parser.fields[2].p, ChildInputOf(parser.fields[2]))>>

\* fail-fast among fields that are visited in declaration order
C3_DeclaredOrderWitness ==
    /\ Returned
    /\ parser.k = "parseObjectOf"
    /\ input.t = "object"
    /\ Len(parser.fields) = 2
    /\ Visited = parser.fields
    /\ FieldRejected(1)
    /\ FieldRejected(2)
    /\ Run(parser.fields[1].p, ChildInput(1)).res.reason
           # Run(parser.fields[2].p, ChildInput(2)).res.reason
    /\ isFailure(result)

\* the key is no own property of the input
MissingKey(key) == \A n \in 1..Len(input.props) : input.props[n].key # key

\* the own properties a record holding the given fields has: the assignment
\* result[key] = ... creates none for the key __proto__
Stored(fields) == SelectSeq(fields, LAMBDA f : f.key # "__proto__")

\* the input restricted to the given fields: what it yields at each key
RestrictedTo(fields) ==
    Obj([i \in 1..Len(fields) |-> Prop(fields[i].key, ChildInputOf(fields[i]))])

\* the given fields with the values their children validated
ValidatedOf(fields) ==
    Obj([i \in 1..Len(fields) |->
            Prop(fields[i].key, Run(fields[i].p, ChildInputOf(fields[i])).res.value)])

\* the prototype a new record has after result['__proto__'] = value: value
\* when it is an object or null, Object.prototype as before otherwise
PrototypeFrom(value) ==
    IF IsObject(value) \/ value = Null THEN value ELSE ObjectPrototype

\* the fields of a list that are named __proto__ (one at most)
ProtoFields(fields) == SelectSeq(fields, LAMBDA f : f.key = "__proto__")

\* the prototype of the record parseObjectOf returns: Object.prototype, or
\* what the validated value of a declared field __proto__ makes it
DeclaredPrototype ==
    IF ProtoFields(Visited) = <<>> THEN ObjectPrototype
    ELSE PrototypeFrom(Run(ProtoFields(Visited)[1].p,
                           ChildInputOf(ProtoFields(Visited)[1])).res.value)

\* the error of an assignment result[key] = ... that found a read-only
\* property of that name on the prototype chain of the record
ReadOnlyThrown(key) ==
    {thrown(ReadOnlyMessage(name, key)) :
        name \in {"[object Object]"} \cup {"#<" \o c \o ">" : c \in Constructors}}

Restricted == RestrictedTo(Stored(Visited))

Validated == ValidatedOf(Stored(Visited))

AllFieldsAccepted == \A i \in 1..Len(Visited) : isSuccess(Run(Visited[i].p, ChildInput(i)).res)

\* C4 as stated: on a record whose declared fields are all accepted,
\* parseObjectOf succeeds with exactly the declared fields and their validated
\* values, and that record equals the input restricted to the declared fields.
C4_Original ==
    (Returned /\ parser.k = "parseObjectOf" /\ input.t = "object" /\ AllFieldsAccepted)
        => /\ result = success(ValidatedOf(Visited))
           /\ result.value = RestrictedTo(Visited)

\* C4 (amended): on a record whose declared fields are all accepted,
\* parseObjectOf succeeds with a record whose own properties are exactly the
\* declared fields other than one named __proto__, in the order the loop
\* visits them, each holding its child's validated value; no undeclared key of
\* the input appears in it; its own properties equal the input restricted to
\* those fields when every child returned the value it was handed.  A declared
\* field __proto__ is not stored: its validated value, when an object or null,
\* becomes the prototype of the record.  The one other outcome is that the
\* invocation throws, when the prototype so set holds a read-only property
\* that a field visited later names.
C4_ObjectOfRoundTrip ==
    (pc \in {"returned", "thrown"} /\ parser.k = "parseObjectOf" /\ input.t = "object"
        /\ AllFieldsAccepted)
        => IF pc = "thrown"
           THEN /\ ProtoFields(Visited) # <<>>
                /\ DeclaredPrototype \notin {ObjectPrototype, Null}
                /\ \E i \in 1..Len(Visited) :
                      /\ result \in ReadOnlyThrown(Visited[i].key)
                      /\ ~FindProperty(DeclaredPrototype, Visited[i].key).writable
           ELSE /\ isSuccess(result)
                /\ result.value.t = "object"
                /\ result.value.props = Validated.props
                /\ ProtoOf(result.value) = DeclaredPrototype
                /\ \A n \in 1..Len(result.value.props) :
                      \E i \in 1..Len(parser.fields) :
                         result.value.props[n].key = parser.fields[i].key
                /\ (\A i \in 1..Len(Visited) :
                         Run(Visited[i].p, ChildInput(i)).res.value = ChildInput(i))
                      => result.value.props = Restricted.props

\* a record with a key __proto__ holding a record: the declared field
\* __proto__ was validated and became the prototype of the result, which has
\* the other declared field as its only own property
C4_PrototypeWitness ==
    /\ Returned
    /\ parser = PObjectOf(<<Field("__proto__", PAnyValue), Field("a", PAnyValue)>>)
    /\ input = Obj(<<Prop("a", Str("a")), Prop("__proto__", Obj(<<Prop("a", Str("a"))>>))>>)
    /\ result = success(ObjOf(<<Prop("a", Str("a"))>>, Obj(<<Prop("a", Str("a"))>>)))

\* a record with an undeclared key b was accepted and b was dropped
C4_Witness ==
    /\ Returned
    /\ parser = PObjectOf(<<Field("a", PNumber)>>)
    /\ input = Obj(<<Prop("a", Num(1)), Prop("b", Str("a"))>>)
    /\ result = success(Obj(<<Prop("a", Num(1))>>))

\* the key names a property every record inherits
InheritedKey(key) == FindProperty(ObjectPrototype, key).d # "none"

\* the statement of C5 for the declared fields, those whose keys name an
\* inherited property included or not
MissingKeyHandling(inheritedToo) ==
    (Returned /\ parser.k = "parseObjectOf" /\ input.t = "object")
        => \A i \in 1..Len(parser.fields) :
              (/\ inheritedToo \/ ~InheritedKey(parser.fields[i].key)
               /\ MissingKey(parser.fields[i].key)
               /\ \A j \in 1..Len(parser.fields) : j # i => ~RejectedOf(parser.fields[j]))
                  => LET child == Run(parser.fields[i].p, Undefined)
                     IN  /\ \E n \in 1..Len(calls) : calls[n] = child.calls[1]
                         /\ isSuccess(result) <=> isSuccess(child.res)
                         /\ isFailure(child.res)
                               => result = failure(input,
                                       "Failed at '" \o parser.fields[i].key \o "': "
                                           \o child.res.reason)

\* C5 as stated: a declared field whose key the input record lacks has its
\* child invoked with undefined; when the other fields are accepted the record
\* parser succeeds exactly when that child accepts undefined, and otherwise
\* fails with "Failed at '<k>': <the child's reason for undefined>".
C5_MissingKeyIsUndefined == MissingKeyHandling(TRUE)

\* what holds of parseObjectOf: the statement of C5 for the declared keys that
\* name no inherited property
C5_MissingPlainKey == MissingKeyHandling(FALSE)

\* a record with no key at all was rejected by a field toString that may be
\* absent: its child was handed the method the record inherits
C5_Witness ==
    /\ Returned
    /\ parser = PObjectOf(<<Field("toString", PVoidable(PString))>>)
    /\ input = Obj(<<>>)
    /\ calls = <<Call(parser, input), Call(PVoidable(PString), Method("Object.prototype", "toString")),
                 Call(PString, Method("Object.prototype", "toString"))>>
    /\ result = failure(input, "Failed at 'toString': typeof value is function")

\* a record with no key at all and a declared field b: the child was handed
\* undefined and its verdict is the record parser's
C5_PlainWitness ==
    /\ Returned
    /\ parser = PObjectOf(<<Field("b", PVoidable(PString))>>)
    /\ input = Obj(<<>>)
    /\ calls = <<Call(parser, input), Call(PVoidable(PString), Undefined)>>
    /\ result = success(Obj(<<Prop("b", Undefined)>>))

\* the child of parseArrayOf rejects the i-th member
MemberRejected(i) == isFailure(Run(parser.p, input.items[i]).res)

\* the invocations made for the members 1..n, in order
RECURSIVE MemberCalls(_)
MemberCalls(n) ==
    IF n = 0 THEN <<>>
    ELSE MemberCalls(n - 1) \o Run(parser.p, input.items[n]).calls

\* the invocations parseArrayOf makes before it parses the first member
ArrayOfPrologue ==
    <<Call(parser, input), Call(PArray, input),
      Call([k |-> "reduce", p |-> parser.p], input)>>

\* C6: on a sequence with a rejected member, parseArrayOf fails with the whole
\* sequence as value and reason "Failed at '<i>': <child reason>", i the
\* smallest (0-based) index of a rejected member, and has invoked the child
\* on the members up to i and on no later member.
C6_ArrayOfFirstFailure ==
    (Returned /\ parser.k = "parseArrayOf" /\ input.t = "array")
        => \A i \in 1..Len(input.items) :
              (MemberRejected(i) /\ \A j \in 1..(i - 1) : ~MemberRejected(j))
                  => /\ result = failure(input,
                                    "Failed at '" \o NatToString(i - 1) \o "': "
                                        \o Run(parser.p, input.items[i]).res.reason)
                     /\ calls = ArrayOfPrologue \o MemberCalls(i)

\* a sequence whose two members are both rejected, for different reasons
C6_Witness ==
    /\ Returned
    /\ parser = PArrayOf(PNumber)
    /\ input = Arr(<<Str("a"), Null>>)
    /\ result = failure(input, "Failed at '0': typeof value is string")

\* C7: on a sequence whose members are all accepted, parseArrayOf succeeds
\* with a sequence of the same length holding at each position the child's
\* validated value of the member at that position; the empty sequence yields
\* the empty sequence.
C7_ArrayOfSuccess ==
    (Returned /\ parser.k = "parseArrayOf" /\ input.t = "array"
        /\ \A i \in 1..Len(input.items) : ~MemberRejected(i))
        => result = success(Arr([i \in 1..Len(input.items) |->
                                    Run(parser.p, input.items[i]).res.value]))

\* two different members were accepted, the first bypassed by optional
C7_Witness ==
    /\ Returned
    /\ parser = PArrayOf(POptional(PNumber))
    /\ input = Arr(<<Null, Num(1)>>)
    /\ result = success(Arr(<<Null, Num(1)>>))

\* the i-th parser handed to parseOneOf accepts the input
Accepts(i) == isSuccess(Run(parser.ps[i], input).res)

\* the invocations made for the parsers 1..n of parseOneOf, in order
RECURSIVE AlternativeCalls(_)
AlternativeCalls(n) ==
    IF n = 0 THEN <<>>
    ELSE AlternativeCalls(n - 1) \o Run(parser.ps[n], input).calls

\* the invocation of the parser parseOneOf returned, which is its only parser
\* when it was handed one
OneOfSelf == IF Len(parser.ps) = 1 THEN <<>> ELSE <<Call(parser, input)>>

\* C8: parseOneOf tries its parsers in the order given on the same input and
\* returns the success of the first one that accepts; the parsers after it are
\* not invoked.
C8_OneOfFirstSuccess ==
    (Returned /\ parser.k = "parseOneOf")
        => \A j \in 1..Len(parser.ps) :
              (Accepts(j) /\ \A i \in 1..(j - 1) : ~Accepts(i))
                  => /\ result = Run(parser.ps[j], input).res
                     /\ calls = OneOfSelf \o AlternativeCalls(j)

\* the first parser rejected, the second and the third accept with different
\* values, and the second one's value was returned
C8_Witness ==
    /\ Returned
    /\ parser.k = "parseOneOf"
    /\ Len(parser.ps) = 3
    /\ ~Accepts(1)
    /\ Accepts(2)
    /\ Accepts(3)
    /\ Run(parser.ps[2], input).res # Run(parser.ps[3], input).res
    /\ result = Run(parser.ps[2], input).res

\* the failure parseOneOf synthesizes for n parsers
NoMatch(n) ==
    failure(input, "'" \o ToStr(input) \o "' did not match any of "
                       \o NatToString(n) \o " validators")

\* C9 as stated: for every number N >= 1 of parsers, when all reject the
\* input the result is the synthesized failure naming N.
C9_Original ==
    (Returned /\ parser.k = "parseOneOf" /\ \A i \in 1..Len(parser.ps) : ~Accepts(i))
        => result = NoMatch(Len(parser.ps))

\* C9 (amended): for N >= 2 parsers that all reject the input the result is
\* the synthesized failure naming N, with the input as value and no child
\* reason in it, and for an input that ToString cannot convert the reason
\* cannot be built and the invocation throws; for N = 1 parseOneOf returns its
\* only parser, so the result is that parser's own failure.
C9_OneOfAllReject ==
    (pc \in {"returned", "thrown"} /\ parser.k = "parseOneOf"
        /\ \A i \in 1..Len(parser.ps) : isFailure(Run(parser.ps[i], input).res))
        => IF Len(parser.ps) >= 2
           THEN IF ToStringThrows(input)
                THEN result = thrown(TypeError)
                ELSE result = NoMatch(Len(parser.ps))
           ELSE result = Run(parser.ps[1], input).res

\* three parsers rejected null
C9_Witness ==
    /\ Returned
    /\ parser.k = "parseOneOf"
    /\ Len(parser.ps) = 3
    /\ input = Null
    /\ result = failure(Null, "'null' did not match any of 3 validators")

\* C10 as stated: when the child of mapParser succeeds with a, the transform
\* is invoked with a and what it returns is the result, a failure included.
C10_Original ==
    (Returned /\ parser.k = "mapParser" /\ isSuccess(Run(parser.p, input).res))
        => LET a == Run(parser.p, input).res.value
           IN  /\ \E n \in 1..Len(calls) : calls[n] = Call(parser.next, a)
               /\ result = ApplyNext(parser.next, a).res

\* C10 (amended): when the child of mapParser succeeds with a, the transform
\* is invoked with a; a success it returns is the result as it is, and a
\* failure it returns keeps its reason and has its value rewritten to the
\* input of the mapParser parser.
C10_MapParserTransform ==
    (Returned /\ parser.k = "mapParser" /\ isSuccess(Run(parser.p, input).res))
        => LET a == Run(parser.p, input).res.value
               t == ApplyNext(parser.next, a).res
           IN  /\ \E n \in 1..Len(calls) : calls[n] = Call(parser.next, a)
               /\ isSuccess(t) => result = t
               /\ isFailure(t) => result = failure(input, t.reason)

\* the transform reported a failure about null and the result is about the input
C10_Witness ==
    /\ Returned
    /\ parser = PMapParser(PString, Const(failure(Null, "rejected")))
    /\ input = Str("a")
    /\ result = failure(Str("a"), "rejected")

\* C11: optional(v)(null) is success(null) and v is not invoked, and
\* optional(v)(x) is v(x) for every other x, undefined included;
\* voidable(v)(undefined) is success(undefined) and v is not invoked, and
\* voidable(v)(x) is v(x) for every other x, null included.
C11_NullAndAbsenceApart ==
    (pc \in {"returned", "thrown"} /\ parser.k \in {"optional", "voidable"})
        => LET bypassed == IF parser.k = "optional" THEN Null ELSE Undefined
               child == Run(parser.p, input)
           IN  IF input = bypassed
               THEN result = success(bypassed) /\ calls = <<Call(parser, input)>>
               ELSE result = child.res /\ calls = <<Call(parser, input)>> \o child.calls

\* optional bypassed null for a child that rejects null: voidable(parseString)
\* delegates on null
C11_Witness ==
    /\ Returned
    /\ parser = POptional(PVoidable(PString))
    /\ input = Null
    /\ result = success(Null)
    /\ calls = <<Call(parser, Null)>>
    /\ isFailure(Run(parser.p, Null).res)

Structural(p) == p.k \in {"parseObjectOf", "parseArrayOf", "parseIndexedObjectOf"}

\* the parts of x a structural combinator p hands to child parsers, in the
\* order it visits them: the key, the child parser and the value of each
Parts(p, x) ==
    CASE p.k = "parseObjectOf" ->
            [i \in 1..Len(p.fields) |->
                [key |-> ForInOrder(p.fields)[i].key, p |-> ForInOrder(p.fields)[i].p,
                 v |-> fieldValue(x, ForInOrder(p.fields)[i].key)]]
      [] p.k = "parseArrayOf" /\ x.t = "array" ->
            [i \in 1..Len(x.items) |->
                [key |-> NatToString(i - 1), p |-> p.p, v |-> x.items[i]]]
      [] p.k = "parseIndexedObjectOf" /\ x.t \in {"object", "array"} ->
            [i \in 1..Len(ForInKeys(x)) |->
                [key |-> ForInKeys(x)[i], p |-> p.p, v |-> Get(x, ForInKeys(x)[i])]]
      [] OTHER -> <<>>

\* the positions of the parts of x that their child parser rejects
RejectedParts(p, x) ==
    {i \in 1..Len(Parts(p, x)) : isFailure(Run(Parts(p, x)[i].p, Parts(p, x)[i].v).res)}

\* the first part of x that its child parser rejects
FirstRejected(p, x) ==
    Parts(p, x)[CHOOSE i \in RejectedParts(p, x) : \A j \in RejectedParts(p, x) : i <= j]

\* the keys from x down to the innermost rejected value, one per structural
\* combinator gone through
RECURSIVE FailedPath(_, _)
FailedPath(p, x) ==
    IF Structural(p) /\ RejectedParts(p, x) # {}
    THEN <<FirstRejected(p, x).key>>
             \o FailedPath(FirstRejected(p, x).p, FirstRejected(p, x).v)
    ELSE <<>>

\* the reason the innermost parser on that path gave for the value it rejected
RECURSIVE InnermostReason(_, _)
InnermostReason(p, x) ==
    IF Structural(p) /\ RejectedParts(p, x) # {}
    THEN InnermostReason(FirstRejected(p, x).p, FirstRejected(p, x).v)
    ELSE Run(p, x).res.reason

\* "Failed at '<key>': " for the keys of path from the i-th on, outermost first
RECURSIVE Segments(_, _)
Segments(path, i) ==
    IF i > Len(path) THEN ""
    ELSE "Failed at '" \o path[i] \o "': " \o Segments(path, i + 1)

\* C12: when a structural combinator (parseObjectOf, parseArrayOf,
\* parseIndexedObjectOf, nested in any mix) fails because a value k levels
\* below its input was rejected with reason r, the reason of its failure is the
\* k segments "Failed at '<key>': ", outermost key first, followed by r.
C12_OneSegmentPerLevel ==
    (Returned /\ Structural(parser) /\ isFailure(result))
        => result.reason
               = Segments(FailedPath(parser, input), 1) \o InnermostReason(parser, input)

\* a map of sequences of records failed three levels down, one level of each kind
C12_Witness ==
    /\ Returned
    /\ parser = PIndexedObjectOf(PArrayOf(PObjectOf(<<Field("a", PNumber)>>)))
    /\ FailedPath(parser, input) = <<"b", "1", "a">>
    /\ InnermostReason(parser, input) = "typeof value is string"
    /\ result.reason = "Failed at 'b': Failed at '1': Failed at 'a': typeof value is string"

\* the map with the key set of the input, each key holding the value the child
\* of parseIndexedObjectOf validated for it
ValidatedMap ==
    Obj([i \in 1..Len(Parts(parser, input)) |->
            Prop(Parts(parser, input)[i].key,
                 Run(parser.p, Parts(parser, input)[i].v).res.value)])

\* the failure parseIndexedObjectOf returns for the first key whose value the
\* child rejects
FirstKeyFailure ==
    failure(input, "Failed at '" \o FirstRejected(parser, input).key \o "': "
                       \o Run(parser.p, FirstRejected(parser, input).v).res.reason)

\* C13 as stated: parseIndexedObjectOf(child)(x) fails with "value is null or
\* undefined" for null and undefined, with the typeof reason for an x that is
\* no object, with "Failed at '<key>': <child reason>" for the first key whose
\* value the child rejects, and otherwise succeeds with a map that has exactly
\* the key set of x, each key holding the child's validated value.
C13_Original ==
    (Returned /\ parser.k = "parseIndexedObjectOf")
        => IF input \in {Null, Undefined}
           THEN result = failure(input, "value is null or undefined")
           ELSE IF TypeOf(input) # "object"
           THEN result = failure(input, "typeof value is " \o TypeOf(input))
           ELSE IF RejectedParts(parser, input) # {}
           THEN result = FirstKeyFailure
           ELSE result = success(ValidatedMap)

\* the own keys of x other than __proto__
PlainKeys(x) == {i \in 1..Len(ForInKeys(x)) : ForInKeys(x)[i] # "__proto__"}

\* the prototype of the map parseIndexedObjectOf returns: Object.prototype, or
\* what the validated value of a key __proto__ of x makes it
MapPrototype ==
    IF PlainKeys(input) = 1..Len(ForInKeys(input)) THEN ObjectPrototype
    ELSE PrototypeFrom(CHOOSE v \in {ValidatedMap.props[i].val :
                                        i \in (1..Len(ForInKeys(input))) \ PlainKeys(input)} : TRUE)

\* what holds of parseIndexedObjectOf when it returns: the statement of C13
\* with the key __proto__ left out of the map built on success, its validated
\* value made the prototype of the map when it is an object or null
C13_IndexedObjectOf ==
    (Returned /\ parser.k = "parseIndexedObjectOf")
        => IF input \in {Null, Undefined}
           THEN result = failure(input, "value is null or undefined")
           ELSE IF TypeOf(input) # "object"
           THEN result = failure(input, "typeof value is " \o TypeOf(input))
           ELSE IF RejectedParts(parser, input) # {}
           THEN result = FirstKeyFailure
           ELSE /\ isSuccess(result)
                /\ {result.value.props[n] : n \in 1..Len(result.value.props)}
                      = {ValidatedMap.props[i] : i \in PlainKeys(input)}
                /\ ProtoOf(result.value) = MapPrototype

\* a document with the key __proto__ was accepted and the map returned lacks it
C13_Witness ==
    /\ Returned
    /\ parser = PIndexedObjectOf(PString)
    /\ input = Obj(<<Prop("__proto__", Str("a"))>>)
    /\ result = success(Obj(<<>>))

\* the inputs a scalar parser is to accept, by the tag of the value
TagAccepted(p, x) ==
    CASE p = PString -> x.t = "string"
      [] p = PNumber -> x.t = "number"
      [] p = PBoolean -> x.t = "boolean"
      [] p = PUndefined -> x.t = "undefined"
      [] p = PObject -> x.t \in {"object", "array"}
      [] p = PArray -> x.t = "array"
      [] p = PAnyValue -> TRUE

\* C14: parseString, parseNumber and parseBoolean succeed exactly on a string,
\* a number and a boolean, parseUndefined exactly on undefined (not on null),
\* parseObject exactly on a value of object category other than null,
\* parseArray exactly on a sequence and parseAnyValue on every input; nothing
\* is coerced, and the value of a success is the input unchanged.
C14_StrictTag ==
    (Returned /\ parser \in ScalarParsers \cup {PAnyValue})
        => /\ isSuccess(result) <=> TagAccepted(parser, input)
           /\ isFailure(result) <=> ~TagAccepted(parser, input)
           /\ isSuccess(result) => result.value = input

\* parseNumber rejected the string "1"
C14_Witness ==
    /\ Returned
    /\ parser = PNumber
    /\ input = Str("1")
    /\ result = failure(Str("1"), "typeof value is string")

\* x === literal for a literal that is a string, a number or a boolean: the
\* same type and the same value
StrictlyEqual(x, literal) ==
    /\ x.t = literal.t
    /\ CASE x.t = "string" -> x.s = literal.s
         [] x.t = "number" -> x.n = literal.n
         [] x.t = "boolean" -> x.b = literal.b
         [] OTHER -> FALSE

\* C15: parseExactly(literal)(x) succeeds exactly when x is strictly equal to
\* the literal, with the literal as value; for every other x it fails with
\* value x and reason "is not <literal>".
C15_ExactMatch ==
    (Returned /\ parser.k = "parseExactly")
        => IF StrictlyEqual(input, parser.option)
           THEN result = success(parser.option)
           ELSE result = failure(input, "is not " \o ToStr(parser.option))

\* the literal 1 did not match the string "1"
C15_Witness ==
    /\ Returned
    /\ parser = PExactly(Num(1))
    /\ input = Str("1")
    /\ result = failure(Str("1"), "is not 1")

\* C16: a parser keeps no state between invocations: an invocation leaves the
\* object it is handed as it was, and an invocation on an input the parser was
\* invoked on before (the same object, or one equal to it), directly after
\* that invocation or with invocations on other inputs in between, ends with
\* the same outcome (the same variant, value and reason), the Result of the
\* earlier invocation still being what it was.
C16_StatelessDeterministic ==
    [][ReturnAt => /\ Deref(heap', input) = Deref(heap, input)
                   /\ (kept.held /\ kept.parser = parser
                                 /\ Deref(heap, input) = kept.given)
                          => /\ Outcome(heap', result') = kept.outcome
                             /\ Outcome(heap', kept.result) = kept.outcome]_vars

\* a sequence parser accepted the sequence it had accepted before, the same
\* object, after an invocation on another input: the two Results carry two
\* arrays with the same one member
C16_Witness ==
    /\ Returned
    /\ kept.held
    /\ kept.interleaved
    /\ parser.k = "parseArrayOf"
    /\ kept.parser = parser
    /\ input = kept.input
    /\ IsRef(input)
    /\ Deref(heap, input) = kept.given
    /\ isSuccess(result)
    /\ IsRef(result.value)
    /\ result.value # kept.result.value
    /\ Len(Deref(heap, result.value).items) = 1
    /\ Outcome(heap, result) = kept.outcome

\* C17 as stated: every invocation of a parser, scalar or composed, on a value
\* of the input domain ends by returning a Result that is exactly one of
\* success and failure, and never by throwing.
C17_Original ==
    /\ pc # "thrown"
    /\ Returned => (isSuccess(result) # isFailure(result))

\* the invocation is one in which result[key] = ... may reach a prototype set
\* through the key __proto__: a parseObjectOf declaring __proto__ and key, or
\* a parseIndexedObjectOf of a document with both keys
AssignsBelowPrototype(call, key) ==
    \/ /\ call.fn.k = "parseObjectOf"
       /\ \E i, j \in 1..Len(call.fn.fields) :
             call.fn.fields[i].key = "__proto__" /\ call.fn.fields[j].key = key
    \/ /\ call.fn.k = "parseIndexedObjectOf"
       /\ call.arg.t = "object"
       /\ \E i, j \in 1..Len(ForInKeys(call.arg)) :
             ForInKeys(call.arg)[i] = "__proto__" /\ ForInKeys(call.arg)[j] = key

\* the keys that name a read-only property of a value a parser can be handed
ReadOnlyKeys == {"length", "name", "prototype"} \cup NumberConstants

\* what holds of the library: an invocation that returns, returns exactly one
\* of success and failure, and the invocations that throw are those in which
\* a parseOneOf of two or more parsers, all rejecting, is to name a value that
\* ToString cannot convert, those in which a parseObjectOf declaring a field
\* caller or arguments is handed a built-in function, which a field naming an
\* inherited method yields, and those in which a record under construction
\* was given a prototype through the key __proto__ and a later key names a
\* read-only property of that prototype
C17_ThrowsOnlyInNoMatch ==
    /\ Returned => (isSuccess(result) # isFailure(result))
    /\ pc = "thrown"
          => \/ /\ result = thrown(TypeError)
                /\ \E n \in 1..Len(calls) :
                      /\ calls[n].fn.k = "parseOneOf"
                      /\ Len(calls[n].fn.ps) >= 2
                      /\ ToStringThrows(calls[n].arg)
             \/ /\ result = thrown(RestrictedError)
                /\ \E n \in 1..Len(calls) :
                      /\ calls[n].fn.k = "parseObjectOf"
                      /\ calls[n].arg.t = "function"
                      /\ \E i \in 1..Len(calls[n].fn.fields) :
                            calls[n].fn.fields[i].key \in {"caller", "arguments"}
             \/ \E key \in ReadOnlyKeys :
                   /\ result \in ReadOnlyThrown(key)
                   /\ \E n \in 1..Len(calls) : AssignsBelowPrototype(calls[n], key)

\* a record parser declaring __proto__ and length was handed a string: the
\* field __proto__ made String.prototype the prototype of the record under
\* construction, and storing the field length threw
C17_AssignWitness ==
    /\ pc = "thrown"
    /\ parser = PObjectOf(<<Field("__proto__", PAnyValue), Field("length", PAnyValue)>>)
    /\ input = Str("a")
    /\ calls = <<Call(parser, input), Call(PAnyValue, StringPrototype), Call(PAnyValue, Num(1))>>
    /\ result = thrown("TypeError: Cannot assign to read only property 'length' of object '[object Object]'")

\* a field toString of a record without that key yielded the inherited method,
\* and the parser of that field, a record parser with a field caller, threw on
\* reading it
C17_ReadWitness ==
    /\ pc = "thrown"
    /\ parser = PObjectOf(<<Field("toString", PObjectOf(<<Field("caller", PAnyValue)>>))>>)
    /\ input = Obj(<<>>)
    /\ calls = <<Call(parser, input),
                 Call(PObjectOf(<<Field("caller", PAnyValue)>>), Method("Object.prototype", "toString"))>>
    /\ result = thrown(RestrictedError)

\* the second member of a sequence has a key toString, both parsers of the
\* member parser rejected it, and the sequence parser threw
C17_Witness ==
    /\ pc = "thrown"
    /\ parser = PArrayOf(POneOf(<<PUndefined, PString>>))
    /\ input = Arr(<<Str("a"), Obj(<<Prop("toString", Num(1))>>)>>)
    /\ result = thrown(TypeError)

\* the inputs that are no record and that `value ? ... : undefined` takes for false
Falsy == {Null, Undefined, Bool(FALSE), Num(0), Str("")}

\* the child of a field rejects undefined
RejectsAbsence(field) == isFailure(Run(field.p, Undefined).res)

\* the fields of a list whose children parseObjectOf gets to on a falsy input
\* when it takes them in the order of the list: those up to the first one that
\* rejects undefined
Reached(fields) ==
    {i \in 1..Len(fields) : \A j \in 1..(i - 1) : ~RejectsAbsence(fields[j])}

\* the invocations made for the fields 1..n of a list when each child is
\* handed undefined, in order
RECURSIVE AbsenceCalls(_, _)
AbsenceCalls(fields, n) ==
    IF n = 0 THEN <<>>
    ELSE AbsenceCalls(fields, n - 1) \o Run(fields[n].p, Undefined).calls

\* the statement of C18 for the fields taken in the given order
NoRecordCheck(fields) ==
    (Returned /\ parser.k = "parseObjectOf")
        => /\ Len(fields) = 0 => result = success(Obj(<<>>))
           /\ input \in Falsy
                 => /\ calls = <<Call(parser, input)>>
                                  \o AbsenceCalls(fields, Cardinality(Reached(fields)))
                    /\ isSuccess(result) <=> \A i \in 1..Len(fields) : ~RejectsAbsence(fields[i])
                    /\ isSuccess(result)
                          => /\ result.value.props
                                  = [i \in 1..Len(Stored(fields)) |->
                                        Prop(Stored(fields)[i].key,
                                             Run(Stored(fields)[i].p, Undefined).res.value)]
                             /\ ProtoOf(result.value)
                                  = IF ProtoFields(fields) = <<>> THEN ObjectPrototype
                                    ELSE PrototypeFrom(
                                             Run(ProtoFields(fields)[1].p, Undefined).res.value)
                    /\ \A i \in Reached(fields) :
                          RejectsAbsence(fields[i])
                              => result = failure(input,
                                     "Failed at '" \o fields[i].key \o "': "
                                         \o Run(fields[i].p, Undefined).res.reason)

\* C18 as stated: parseObjectOf does not check that its input is a record.  On
\* null, undefined, false, 0 and "" the child of every declared field it gets
\* to is invoked with undefined instead of a field value; it succeeds exactly
\* when every declared child accepts undefined, and otherwise fails with the
\* input as value and reason "Failed at '<k>': <child reason>", k the first
\* declared field whose child rejects undefined.  With no declared fields it
\* succeeds on every input with an empty record.
C18_Original == NoRecordCheck(parser.fields)

\* C18 (amended): the same with k the first field, in the order the loop
\* visits the fields (keys that are array indices first, ascending, then the
\* others as declared), whose child rejects undefined.
C18_NoRecordCheck == NoRecordCheck(Visited)

\* null was rejected by a record parser declaring b before 0, both children
\* rejecting undefined: the field reported is 0
C18_OrderWitness ==
    /\ Returned
    /\ parser = PObjectOf(<<Field("b", PString), Field("0", PNumber)>>)
    /\ input = Null
    /\ calls = <<Call(parser, input), Call(PNumber, Undefined)>>
    /\ result = failure(Null, "Failed at '0': typeof value is undefined")

\* the number 0 was accepted as a record of two fields that may be absent
C18_Witness ==
    /\ Returned
    /\ parser = PObjectOf(<<Field("a", PVoidable(PString)), Field("b", PUndefined)>>)
    /\ input = Num(0)
    /\ result = success(Obj(<<Prop("a", Undefined), Prop("b", Undefined)>>))

====
